---- MODULE Spec2Model ----
(***************************************************************************)
(* Model of the pasture scraper: the fetch / filter / dedup / archive      *)
(* pipeline of src/core/scraper.py, the adapters of src/pastures and the   *)
(* run loop of src/main.py.                                                *)
(*                                                                         *)
(* Strings are sequences of tokens (a token is a word, a separator or a    *)
(* scheme+host); a URL is such a sequence, e.g.                            *)
(*   <<"https://x.com", "/", "a", "?", "utm_source", "=", "y">>.           *)
(***************************************************************************)
EXTENDS Integers, Sequences, FiniteSets, TLC

(***************************************************************************)
(* Bounds of the model.                                                    *)
(***************************************************************************)
\* posts in one feed, posts in all feeds together
MaxPosts == 2
MaxDelivered == 2

(***************************************************************************)
(* Sequence helpers.                                                       *)
(***************************************************************************)
Range(s) == {s[i] : i \in 1..Len(s)}

SeqsUpTo(S, n) == UNION {[1..k -> S] : k \in 0..n}

\* index of the first occurrence of token t in s, 0 when absent (str.find)
IndexOf(s, t) ==
    IF \E i \in 1..Len(s) : s[i] = t
    THEN CHOOSE i \in 1..Len(s) : s[i] = t /\ \A j \in 1..(i - 1) : s[j] # t
    ELSE 0

\* str.lower() on one token
Lower(t) ==
    CASE t = "UTM_SOURCE" -> "utm_source"
      [] t = "Politics" -> "politics"
      [] t = "Spam" -> "spam"
      [] t = "Ads" -> "ads"
      [] t = "XYZ.JPG" -> "xyz.jpg"
      [] t = "hsCtaTracking" -> "hsctatracking"
      [] t = "CMP" -> "cmp"
      [] t = "CNDID" -> "cndid"
      [] t = "linkCode" -> "linkcode"
      [] t = "linkId" -> "linkid"
      [] t = "creativeASIN" -> "creativeasin"
      [] OTHER -> t


(***************************************************************************)
(* URL normalisation and hashing, src/core/scraper.py.                     *)
(***************************************************************************)
tracking_params ==
    {"utm_source", "utm_medium", "utm_campaign", "utm_term", "utm_content",
     "ref", "source", "medium", "campaign", "content", "term", "fbclid",
     "gclid", "msclkid", "trk", "tracking", "si", "igshid", "feature",
     "share", "mc_cid", "mc_eid", "_hsenc", "_hsmi", "hsCtaTracking",
     "mkt_tok", "pk_source", "pk_medium", "pk_campaign", "pk_keyword",
     "pk_content", "ncid", "CMP", "cmpid", "ito", "nr_email_referer", "via",
     "from", "shared", "fb_action_ids", "fb_ref", "wt_mc", "wt_zmc",
     "wt_zsrc", "CNDID", "mbid", "linkCode", "tag", "linkId", "creativeASIN",
     "ascsubtag", "psc", "ved", "ei", "gs_lcp", "oq", "aqs", "sourceid",
     "ie", "rlz", "gws_rd", "sa", "esrc", "form"}

\* str.partition at index i of the separator (0: the separator is absent)
Cut(s, i) ==
    [head |-> IF i = 0 THEN s ELSE SubSeq(s, 1, i - 1),
     tail |-> IF i = 0 THEN <<>> ELSE SubSeq(s, i + 1, Len(s))]

\* s.partition(t): the parts before and after the first t
Partition(s, t) == Cut(s, IndexOf(s, t))

\* urlparse: netloc (with scheme) is the first token, the path runs to the
\* first "?" or "#", the query to the first "#", the fragment is the rest
urlparse_parts(f, q) ==
    [netloc |-> IF q.head = <<>> THEN <<>> ELSE <<q.head[1]>>,
     path |-> IF q.head = <<>> THEN <<>> ELSE Tail(q.head),
     query |-> q.tail,
     fragment |-> f.tail]

urlparse_query(f) == urlparse_parts(f, Partition(f.head, "?"))

urlparse(url) == urlparse_query(Partition(url, "#"))

\* one "k=v" chunk of a query string as a <<key, value>> pair; a blank value
\* is kept (keep_blank_values=True) as the empty string
ParsePair(chunk) ==
    LET e == IndexOf(chunk, "=")
    IN  IF e = 0 THEN <<chunk, <<>>>>
        ELSE <<SubSeq(chunk, 1, e - 1), SubSeq(chunk, e + 1, Len(chunk))>>

\* the pairs of a query string in order, split on "&"; empty chunks dropped
RECURSIVE QueryPairs(_)
QueryPairs(query) ==
    IF query = <<>> THEN <<>>
    ELSE LET a == IndexOf(query, "&")
             chunk == IF a = 0 THEN query ELSE SubSeq(query, 1, a - 1)
             rest == IF a = 0 THEN <<>> ELSE SubSeq(query, a + 1, Len(query))
         IN  (IF chunk = <<>> THEN <<>> ELSE <<ParsePair(chunk)>>)
             \o QueryPairs(rest)

\* parse_qs: a dict from key to the list of its values; a dict iterates in
\* insertion order, so the pairs come out grouped by key, keys in the order
\* of their first occurrence
RECURSIVE parse_qs_pairs(_)
parse_qs_pairs(pairs) ==
    IF pairs = <<>> THEN <<>>
    ELSE LET k == pairs[1][1]
             same == SelectSeq(pairs, LAMBDA p : p[1] = k)
             others == SelectSeq(pairs, LAMBDA p : p[1] # k)
         IN  same \o parse_qs_pairs(others)

parse_qs(query) == parse_qs_pairs(QueryPairs(query))

\* urlencode(..., doseq=True): k=v joined by "&"
RECURSIVE urlencode(_)
urlencode(pairs) ==
    IF pairs = <<>> THEN <<>>
    ELSE pairs[1][1] \o <<"=">> \o pairs[1][2]
         \o (IF Len(pairs) > 1 THEN <<"&">> ELSE <<>>)
         \o urlencode(Tail(pairs))

urlunparse(netloc, path, query, fragment) ==
    netloc \o path
    \o (IF query # <<>> THEN <<"?">> \o query ELSE <<>>)
    \o (IF fragment # <<>> THEN <<"#">> \o fragment ELSE <<>>)

\* str.rstrip("/")
RECURSIVE rstrip_slash(_)
rstrip_slash(s) ==
    IF s # <<>> /\ s[Len(s)] = "/" THEN rstrip_slash(SubSeq(s, 1, Len(s) - 1))
    ELSE s

\* the tracking key test without lower()
IsTrackingKey_case_sensitive(key) == Len(key) = 1 /\ key[1] \in tracking_params

\* the key of a pair is one token here; a tracking parameter is matched on
\* its lower-cased name
IsTrackingKey(key) ==
    Len(key) = 1 /\ Lower(key[1]) \in {Lower(p) : p \in tracking_params}

\* the query without its tracking parameters, re-encoded
new_query(parsed) ==
    IF parsed.query # <<>>
    THEN urlencode(SelectSeq(parse_qs(parsed.query),
                             LAMBDA p : ~IsTrackingKey(p[1])))
    ELSE <<>>

\* the trailing slashes go unless the string is "/" alone
strip_trailing(normalized) ==
    IF normalized # <<>> /\ normalized[Len(normalized)] = "/"
       /\ Len(normalized) > 1
    THEN rstrip_slash(normalized)
    ELSE normalized

normalize_parsed(parsed) ==
    strip_trailing(urlunparse(parsed.netloc, parsed.path, new_query(parsed),
                              parsed.fragment))

normalize_url(url) == normalize_parsed(urlparse(url))

\* hashlib.sha256(...).hexdigest(): an injective tag on the hashed string
sha256(s) == <<"sha256", s>>

\* core.scraper.hash_url: the hash of the normalized URL
hash_url(url) == sha256(normalize_url(url))

\* Pasture.hash_url (pastures/base): the hash of the URL as given
Pasture_hash_url(url) == sha256(url)

\* Pasture.should_scrape_url
should_scrape_url(url, processed) == Pasture_hash_url(url) \notin processed

\* mark_url_processed with the hash of core.scraper instead of the hash the
\* gate looks up
mark_url_processed_normalized(url, processed) ==
    processed \cup {hash_url(url)}

\* Pasture.mark_url_processed
mark_url_processed(url, processed) == processed \cup {Pasture_hash_url(url)}

(***************************************************************************)
(* is_media_url: a media file extension at the end of the URL, or a media  *)
(* domain anywhere in it.                                                  *)
(***************************************************************************)
\* the tokens of the model that end with one of media_extensions
MediaFileTokens == {"xyz.jpg", "clip.mp4"}

\* the tokens of the model that contain one of media_domains
MediaDomainTokens == {"https://i.redd.it", "https://v.redd.it"}

\* is_media_url with the media_domains test left out
is_media_url_extension_only(url) ==
    url # <<>> /\ Lower(url[Len(url)]) \in MediaFileTokens

is_media_url(url) ==
    \/ url # <<>> /\ Lower(url[Len(url)]) \in MediaFileTokens
    \/ \E i \in 1..Len(url) : url[i] \in MediaDomainTokens

(***************************************************************************)
(* Configuration (config.ini): the sections in file order, each a mapping  *)
(* from key to value.  A blacklist value is a comma separated string.      *)
(***************************************************************************)
ConfigSections == <<"global", "news", "feed", "hn">>

Config ==
    [global |-> [blacklist |-> <<"spam">>],
     news |-> [url |-> <<"https://www.reddit.com", "/", "r", "/", "news.json">>,
               blacklist |-> <<"politics">>,
               interval |-> <<"60">>],
     feed |-> [type |-> <<"rss">>,
               url |-> <<"https://x.com", "/", "feed.xml">>,
               blacklist |-> <<"ads">>],
     hn |-> [type |-> <<"hackernews">>,
             blacklist |-> <<"ads">>,
             interval |-> <<"30">>]]

SourceNames == {ConfigSections[i] : i \in 1..Len(ConfigSections)} \ {"global"}

\* "a, b".split(","), each part stripped, blank parts dropped
RECURSIVE SplitComma(_)
SplitComma(s) ==
    IF s = <<>> THEN <<>>
    ELSE LET c == IndexOf(s, ",")
             part == IF c = 0 THEN s ELSE SubSeq(s, 1, c - 1)
             rest == IF c = 0 THEN <<>> ELSE SubSeq(s, c + 1, Len(s))
         IN  (IF part = <<>> THEN <<>> ELSE <<part[1]>>) \o SplitComma(rest)

Terms == Range(SplitComma(Config.global.blacklist))
         \cup UNION {Range(SplitComma(Config[n].blacklist)) : n \in SourceNames}

\* run_single_scrape, the merge of the global section into a pasture's
\* section: a key the pasture lacks is copied, the blacklists are joined
\* the merge without the blacklist branch: the value of the pasture wins
merge_pasture_first(pasture_config, global_config) ==
    [key \in DOMAIN pasture_config \cup DOMAIN global_config |->
        IF key \in DOMAIN pasture_config THEN pasture_config[key]
        ELSE global_config[key]]

merge(pasture_config, global_config) ==
    LET keys == DOMAIN pasture_config \cup DOMAIN global_config
    IN  [key \in keys |->
            IF key \notin DOMAIN global_config THEN pasture_config[key]
            ELSE IF key \notin DOMAIN pasture_config THEN global_config[key]
            ELSE IF key = "blacklist"
                 THEN IF global_config[key] # <<>> /\ pasture_config[key] # <<>>
                      THEN global_config[key] \o <<",">> \o pasture_config[key]
                      ELSE IF global_config[key] # <<>>
                           THEN global_config[key]
                           ELSE pasture_config[key]
                 ELSE pasture_config[key]]

\* the merged configuration of a section of config.ini
merge_config(section) == merge(Config[section], Config.global)

\* does the token text contain the pattern as a substring
HasSubstring(token, pattern) ==
    <<token, pattern>> \in {<<"https://www.reddit.com", "reddit.com">>,
                            <<"https://news.ycombinator.com", "news.ycombinator.com">>,
                            <<"https://hacker-news.firebaseio.com", "hacker-news.firebaseio.com">>,
                            <<"hackernews", "hackernews">>}

UrlHas(url, pattern) == \E i \in 1..Len(url) : HasSubstring(url[i], pattern)

\* _determine_pasture_type with the URL looked at before the type field
determine_pasture_type_url_first(config) ==
    LET url == IF "url" \in DOMAIN config THEN config.url ELSE <<>>
    IN  IF UrlHas(url, "reddit.com") THEN "reddit"
        ELSE IF \/ UrlHas(url, "hackernews")
                \/ UrlHas(url, "news.ycombinator.com")
                \/ UrlHas(url, "hacker-news.firebaseio.com")
             THEN "hackernews"
             ELSE IF "type" \in DOMAIN config THEN config.type[1]
             ELSE "reddit"

\* PastureFactory._determine_pasture_type
determine_pasture_type(config) ==
    IF "type" \in DOMAIN config THEN config.type[1]
    ELSE LET url == IF "url" \in DOMAIN config THEN config.url ELSE <<>>
         IN  IF UrlHas(url, "reddit.com") THEN "reddit"
             ELSE IF \/ UrlHas(url, "hackernews")
                     \/ UrlHas(url, "news.ycombinator.com")
                     \/ UrlHas(url, "hacker-news.firebaseio.com")
                  THEN "hackernews"
                  ELSE "reddit"

\* PastureFactory._pasture_types
pasture_types == {"reddit", "hackernews"}

\* PastureFactory.create_pasture: raises ValueError on an unregistered type
create_pasture(name, config) ==
    LET pasture_type == determine_pasture_type(config)
    IN  [raised |-> pasture_type \notin pasture_types,
         pasture |-> [name |-> name, config |-> config, type |-> pasture_type]]

\* tag.startswith("-"), for the tag names of the model
is_keep_tag(tag) == tag \in {"-script", "-style", "-nav"}

\* tag[1:] of a tag with the "-" prefix
keep_tag_name(tag) ==
    CASE tag = "-script" -> "script"
      [] tag = "-style" -> "style"
      [] tag = "-nav" -> "nav"
      [] OTHER -> tag

\* Pasture.get_tags_to_remove: the global tags are read from a "global"
\* entry of the adapter's own configuration
get_tags_to_remove(config) ==
    LET own == IF "remove_tags" \in DOMAIN config
               THEN Range(SplitComma(config.remove_tags)) ELSE {}
        tags_to_keep == {keep_tag_name(tag) : tag \in {t \in own : is_keep_tag(t)}}
        tags_to_remove == {t \in own : ~is_keep_tag(t)}
        global_tags_to_remove ==
            IF "global" \notin DOMAIN config THEN {}
            ELSE IF "remove_tags" \notin DOMAIN config.global THEN {}
            ELSE Range(SplitComma(config.global.remove_tags))
    IN  {tag \in global_tags_to_remove : tag \notin tags_to_keep}
        \cup tags_to_remove

\* Pasture.get_blacklist: the terms of the pasture's (merged) blacklist value
get_blacklist(pasture) ==
    IF "blacklist" \in DOMAIN pasture.config
    THEN SplitComma(pasture.config.blacklist)
    ELSE <<>>

(***************************************************************************)
(* StatsTracker, src/core/stats.py.                                        *)
(***************************************************************************)
StatsTracker ==
    [articles_scraped |-> 0,
     articles_skipped_duplicate |-> 0,
     articles_rejected_blacklist |-> 0,
     blacklist_hits_by_term |-> [t \in Terms |-> 0],
     articles_by_source |-> [s \in SourceNames |-> 0],
     errors |-> 0,
     sources_processed |-> <<>>]

increment_scraped(st, source) ==
    [st EXCEPT !.articles_scraped = @ + 1,
               !.articles_by_source[source] = @ + 1]

increment_duplicate(st) == [st EXCEPT !.articles_skipped_duplicate = @ + 1]

increment_blacklisted(st, term) ==
    [st EXCEPT !.articles_rejected_blacklist = @ + 1,
               !.blacklist_hits_by_term[term] = @ + 1]

\* increment_error with the increment left out
increment_error_forgotten(st) == st

increment_error(st) == [st EXCEPT !.errors = @ + 1]

add_source(st, source) ==
    IF source \in Range(st.sources_processed) THEN st
    ELSE [st EXCEPT !.sources_processed = Append(@, source)]

RECURSIVE increment_all(_, _)
increment_all(st, terms) ==
    IF terms = <<>> THEN st
    ELSE increment_all(increment_blacklisted(st, terms[1]), Tail(terms))

(***************************************************************************)
(* output/stats.json, StatsTracker.save_session_stats.  The file holds the *)
(* list of sessions and the map from calendar day to the counters of that  *)
(* day.  A day is a number; the code sorts the texts YYYY-MM-DD, whose     *)
(* order is the order of the days.  run numbers the saves: it stands for   *)
(* start_time and end_time of a session.                                   *)
(***************************************************************************)
\* all_stats['sessions'][-100:]
max_sessions == 100

\* sorted(all_stats['daily'].keys(), reverse=True)[:90]
max_days == 90

\* _load_stats without a file, after the two keys have been added
EmptyStats == [sessions |-> <<>>, daily |-> <<>>]

\* the entry of a day that has none yet
ZeroDay ==
    [articles_scraped |-> 0,
     articles_rejected_blacklist |-> 0,
     articles_skipped_duplicate |-> 0,
     blacklist_hits_by_term |-> <<>>,
     articles_by_source |-> <<>>,
     sessions_count |-> 0]

\* session_stats of a run that did nothing
ZeroSession ==
    [articles_scraped |-> 0,
     articles_skipped_duplicate |-> 0,
     articles_rejected_blacklist |-> 0,
     blacklist_hits_by_term |-> <<>>,
     articles_by_source |-> <<>>,
     errors |-> 0]

\* session_stats of the runs that did something: the two dictionaries hold
\* the keys the run touched
SessionPool ==
    {[articles_scraped |-> 1,
      articles_skipped_duplicate |-> 1,
      articles_rejected_blacklist |-> 1,
      blacklist_hits_by_term |-> [spam |-> 1],
      articles_by_source |-> [news |-> 1],
      errors |-> 1],
     [articles_scraped |-> 2,
      articles_skipped_duplicate |-> 0,
      articles_rejected_blacklist |-> 2,
      blacklist_hits_by_term |-> [spam |-> 1, ads |-> 1],
      articles_by_source |-> [news |-> 1, hn |-> 1],
      errors |-> 0]}

\* daily[...][key] = daily[...].get(key, 0) + count, for every key of the
\* session
merge_counts(daily_counts, session_counts) ==
    [key \in DOMAIN daily_counts \cup DOMAIN session_counts |->
        (IF key \in DOMAIN daily_counts THEN daily_counts[key] ELSE 0)
        + (IF key \in DOMAIN session_counts THEN session_counts[key] ELSE 0)]

\* sessions[:n], the first n instead of the last
keep_first(sessions, n) ==
    IF Len(sessions) > n THEN SubSeq(sessions, 1, n) ELSE sessions

\* if len(sessions) > n: sessions = sessions[-n:]
keep_last(sessions, n) ==
    IF Len(sessions) > n
    THEN SubSeq(sessions, Len(sessions) - n + 1, Len(sessions))
    ELSE sessions

\* sorted(dates, reverse=True)[:n]
dates_to_keep(dates, n) ==
    {d \in dates : Cardinality({e \in dates : e > d}) < n}

\* the session added to the entry of its day
add_to_day(day, session) ==
    [articles_scraped |-> day.articles_scraped + session.articles_scraped,
     articles_rejected_blacklist |->
         day.articles_rejected_blacklist + session.articles_rejected_blacklist,
     articles_skipped_duplicate |->
         day.articles_skipped_duplicate + session.articles_skipped_duplicate,
     blacklist_hits_by_term |->
         merge_counts(day.blacklist_hits_by_term, session.blacklist_hits_by_term),
     articles_by_source |->
         merge_counts(day.articles_by_source, session.articles_by_source),
     sessions_count |-> day.sessions_count + 1]

\* the entry of a day in the map, the zero entry when the day has none
day_entry(daily, date) ==
    IF date \in DOMAIN daily THEN daily[date] ELSE ZeroDay

\* the map with the session added to its day, then cut to the last days
merged_daily(daily, session, date) ==
    [d \in dates_to_keep(DOMAIN daily \cup {date}, max_days) |->
        IF d = date THEN add_to_day(day_entry(daily, date), session)
        ELSE daily[d]]

\* session_data: the session with its date and time
session_data(session, date, run) ==
    [date |-> date,
     run |-> run,
     articles_scraped |-> session.articles_scraped,
     articles_skipped_duplicate |-> session.articles_skipped_duplicate,
     articles_rejected_blacklist |-> session.articles_rejected_blacklist,
     blacklist_hits_by_term |-> session.blacklist_hits_by_term,
     articles_by_source |-> session.articles_by_source,
     errors |-> session.errors]

\* StatsTracker.save_session_stats: the content of the file after the save
save_session_stats(all_stats, session, date, run) ==
    [sessions |-> keep_last(Append(all_stats.sessions,
                                   session_data(session, date, run)),
                            max_sessions),
     daily |-> merged_daily(all_stats.daily, session, date)]

(***************************************************************************)
(* The feeds: the URLs, titles and posts the sources may return.           *)
(***************************************************************************)
UrlA == <<"https://x.com", "/", "a">>
UrlATracked == UrlA \o <<"?", "utm_source", "=", "y">>
UrlASlash == UrlA \o <<"/">>
UrlB == <<"https://x.com", "/", "b", "?", "id", "=", "1">>
UrlMedia == <<"https://i.redd.it", "/", "xyz.jpg">>
UrlMediaDomain == <<"https://v.redd.it", "/", "a">>

CleanTitle == <<"Hello">>
BadTitle == <<"Politics", "Spam">>

\* the first line of the document a fetched page converts to
PageTitles == {CleanTitle, BadTitle}

\* the children of a subreddit listing; the last one lacks its "title" key
RedditPool ==
    {[title |-> CleanTitle, url |-> UrlA, stickied |-> FALSE, is_self |-> FALSE],
     [title |-> CleanTitle, url |-> UrlATracked, stickied |-> FALSE, is_self |-> FALSE],
     [title |-> CleanTitle, url |-> UrlASlash, stickied |-> FALSE, is_self |-> FALSE],
     [title |-> CleanTitle, url |-> UrlMedia, stickied |-> FALSE, is_self |-> FALSE],
     [title |-> CleanTitle, url |-> UrlMediaDomain, stickied |-> FALSE, is_self |-> FALSE],
     [title |-> BadTitle, url |-> UrlB, stickied |-> FALSE, is_self |-> FALSE],
     [title |-> CleanTitle, url |-> UrlB, stickied |-> TRUE, is_self |-> FALSE],
     [title |-> CleanTitle, url |-> UrlB, stickied |-> FALSE, is_self |-> TRUE],
     [url |-> UrlB, stickied |-> FALSE, is_self |-> FALSE]}

\* the items of the HackerNews API
HackerNewsPool ==
    {[type |-> "story", title |-> CleanTitle, url |-> UrlA],
     [type |-> "story", title |-> CleanTitle, url |-> UrlB],
     [type |-> "story", title |-> <<"Ads", "Weekly">>, url |-> UrlB],
     [type |-> "job", title |-> CleanTitle, url |-> UrlB]}

\* the items of an RSS feed; title and url are always there
\* (_parse_rss_item drops an item without them)
RssPool ==
    {[title |-> CleanTitle, url |-> UrlA],
     [title |-> <<"Spam", "Daily">>, url |-> UrlB],
     [title |-> CleanTitle, url |-> UrlB, description |-> <<"about", "Ads">>],
     [title |-> CleanTitle, url |-> UrlA,
      pub_date |-> [fmt |-> "rfc822_name", age_hours |-> 72]],
     [title |-> CleanTitle, url |-> UrlA,
      pub_date |-> [fmt |-> "rfc822_offset", age_hours |-> 72]],
     [title |-> CleanTitle, url |-> UrlA,
      pub_date |-> [fmt |-> "iso_offset", age_hours |-> 72]],
     [title |-> CleanTitle, url |-> UrlA,
      pub_date |-> [fmt |-> "plain", age_hours |-> 72]],
     [title |-> CleanTitle, url |-> UrlA,
      pub_date |-> [fmt |-> "plain", age_hours |-> 30]],
     [title |-> CleanTitle, url |-> UrlA,
      pub_date |-> [fmt |-> "plain", age_hours |-> 2]],
     [title |-> CleanTitle, url |-> UrlA,
      pub_date |-> [fmt |-> "unknown", age_hours |-> 72]]}

\* term in text, without lower()
Matches_case_sensitive(term, text) == \E i \in 1..Len(text) : text[i] = term

\* term.lower() in text.lower()
Matches(term, text) == \E i \in 1..Len(text) : Lower(text[i]) = Lower(term)

blacklist_matches(blacklist, text) ==
    SelectSeq(blacklist, LAMBDA term : Matches(term, text))

(***************************************************************************)
(* The adapters, src/pastures.  fetch_posts and filter_posts return        *)
(* [raised, posts, stats]: raised is an exception leaving the method.      *)
(***************************************************************************)
\* the timeout argument of requests.get in fetch_posts, in seconds; 0 stands
\* for a call without one, which waits for the server as long as it takes
fetch_timeout(type) ==
    CASE type = "reddit" -> 0
      [] type = "hackernews" -> 0
      [] type = "rss" -> 30

\* RedditPasture.fetch_posts / HackerNewsPasture.fetch_posts: a request
\* error gives the empty list, any other error (a listing of another shape)
\* leaves the method
fetch_posts(pasture, outcome, feed) ==
    IF outcome \in {"request_error", "no_response"} THEN [raised |-> FALSE, posts |-> <<>>]
    ELSE IF outcome = "raise" THEN [raised |-> TRUE, posts |-> <<>>]
    ELSE IF pasture.type = "hackernews"
         THEN [raised |-> FALSE,
               posts |-> SelectSeq(feed, LAMBDA story :
                                      story.type = "story" /\ story.url # <<>>)]
         ELSE [raised |-> FALSE, posts |-> feed]

\* RedditPasture.filter_posts; post_data["title"] raises KeyError on a post
\* without a title
RECURSIVE reddit_filter_posts(_, _, _)
reddit_filter_posts(posts, blacklist, st) ==
    IF posts = <<>> THEN [raised |-> FALSE, posts |-> <<>>, stats |-> st]
    ELSE LET post == posts[1]
         IN  IF "title" \notin DOMAIN post
             THEN [raised |-> TRUE, posts |-> <<>>, stats |-> st]
             ELSE LET matches == blacklist_matches(blacklist, post.title)
                      st1 == increment_all(st, matches)
                      keep == /\ ~post.stickied
                              /\ ~post.is_self
                              /\ ~\E i \in 1..Len(blacklist) :
                                     Matches(blacklist[i], post.title)
                      r == reddit_filter_posts(Tail(posts), blacklist, st1)
                  IN  [raised |-> r.raised,
                       posts |-> IF r.raised THEN <<>>
                                 ELSE (IF keep THEN <<post>> ELSE <<>>) \o r.posts,
                       stats |-> r.stats]

\* HackerNewsPasture.filter_posts: the blacklist is matched on title and URL
RECURSIVE hackernews_filter_posts(_, _, _)
hackernews_filter_posts(posts, blacklist, st) ==
    IF posts = <<>> THEN [raised |-> FALSE, posts |-> <<>>, stats |-> st]
    ELSE LET post == posts[1]
             hit(term) == Matches(term, post.title) \/ Matches(term, post.url)
             matches == SelectSeq(blacklist, hit)
             st1 == increment_all(st, matches)
             keep == ~\E i \in 1..Len(blacklist) : hit(blacklist[i])
             r == hackernews_filter_posts(Tail(posts), blacklist, st1)
         IN  [raised |-> FALSE,
              posts |-> (IF keep THEN <<post>> ELSE <<>>) \o r.posts,
              stats |-> r.stats]

\* int(value) of a configuration value; ok = FALSE is a ValueError
int_of(value) ==
    CASE value = <<"0">> -> [ok |-> TRUE, n |-> 0]
      [] value = <<"1">> -> [ok |-> TRUE, n |-> 1]
      [] value = <<"2">> -> [ok |-> TRUE, n |-> 2]
      [] OTHER -> [ok |-> FALSE, n |-> 0]

\* the publish dates of RSS items: the format the text is written in and
\* the time since that instant, in hours.
\*   "rfc822_name"    Mon, 01 Jan 2024 00:00:00 GMT      (%Z)
\*   "rfc822_offset"  Mon, 01 Jan 2024 00:00:00 +0000    (%z)
\*   "iso_offset"     2024-01-01T00:00:00+00:00          (%z)
\*   "plain"          2024-01-01 00:00:00
\*   "unknown"        a text none of date_formats matches
date_formats == {"rfc822_name", "rfc822_offset", "iso_offset", "plain"}

\* datetime.strptime tried over date_formats: a format with %z gives a
\* datetime with a time zone, the others one without
strptime(pub_date) ==
    [parsed |-> pub_date.fmt \in date_formats,
     aware |-> pub_date.fmt \in {"rfc822_offset", "iso_offset"}]

\* RSSPasture._is_within_age_limit: datetime.now() has no time zone, and
\* subtracting a datetime with one raises TypeError, which the except
\* block swallows; timedelta.days is the whole number of days
RSS_is_within_age_limit(post, max_age_days) ==
    IF "pub_date" \notin DOMAIN post THEN TRUE
    ELSE IF ~strptime(post.pub_date).parsed THEN TRUE
    ELSE IF strptime(post.pub_date).aware THEN TRUE
    ELSE post.pub_date.age_hours \div 24 <= max_age_days

\* RSSPasture.filter_posts, the blacklist test of one item: title and
\* description
rss_blacklisted(post, blacklist) ==
    \E i \in 1..Len(blacklist) :
       \/ Matches(blacklist[i], post.title)
       \/ /\ "description" \in DOMAIN post
          /\ Matches(blacklist[i], post.description)

\* RSSPasture.filter_posts, the value max_age_days has after the try block:
\* 0 stands for a value the age test is skipped with (None, or the number 0)
rss_max_age_days(config) ==
    IF "max_age_days" \notin DOMAIN config THEN 0
    ELSE IF config.max_age_days = <<>> THEN 0
    ELSE IF int_of(config.max_age_days).ok THEN int_of(config.max_age_days).n
    ELSE 0

\* RSSPasture.filter_posts: the blacklist is read from the configuration;
\* the statistics are not touched
rss_filter_posts(posts, config, st) ==
    LET blacklist == IF "blacklist" \in DOMAIN config
                     THEN SplitComma(config.blacklist) ELSE <<>>
        max_age_days == rss_max_age_days(config)
        keep(post) == /\ ~rss_blacklisted(post, blacklist)
                      /\ \/ max_age_days = 0
                         \/ RSS_is_within_age_limit(post, max_age_days)
    IN  [raised |-> FALSE,
         posts |-> SelectSeq(posts, keep),
         stats |-> st]

filter_posts(pasture, posts, st) ==
    IF pasture.type = "hackernews"
    THEN hackernews_filter_posts(posts, get_blacklist(pasture), st)
    ELSE IF pasture.type = "rss"
    THEN rss_filter_posts(posts, pasture.config, st)
    ELSE reddit_filter_posts(posts, get_blacklist(pasture), st)

\* get_url_from_post
get_url_from_post(post) == post.url

(***************************************************************************)
(* The output tree: a set of files [dir, stem, ext, title]; title is the   *)
(* first line a file's content converts to.  The directory of a source is  *)
(* output/<name>/<year>/<month>/<day>.                                     *)
(***************************************************************************)
get_output_directory(pasture) == pasture.name

RemoveFile(fs, dir, stem, ext) ==
    {f \in fs : ~(f.dir = dir /\ f.stem = stem /\ f.ext = ext)}

WriteFile(fs, dir, stem, ext, title) ==
    RemoveFile(fs, dir, stem, ext)
    \cup {[dir |-> dir, stem |-> stem, ext |-> ext, title |-> title]}

\* str.split(sep, maxsplit) on a text whose separators are tokens of their
\* own: the parts, the last one holding what is left after maxsplit cuts
RECURSIVE split(_, _, _)
split(s, sep, maxsplit) ==
    IF maxsplit = 0 \/ IndexOf(s, sep) = 0 THEN <<s>>
    ELSE <<SubSeq(s, 1, IndexOf(s, sep) - 1)>>
         \o split(SubSeq(s, IndexOf(s, sep) + 1, Len(s)), sep, maxsplit - 1)

\* href.startswith("http"), by the first token of the text
startswith_http(href) ==
    href # <<>> /\ href[1] \in {"http:", "https:", "httpx"}

\* the same with href.split("/", 4): one more path segment is dropped
rewrite_href_split4(href) ==
    IF startswith_http(href)
    THEN <<"/">> \o split(href, "/", 4)[Len(split(href, "/", 4))]
    ELSE href

\* post_process_html, the href of an anchor:
\* if href.startswith("http"): tag["href"] = "/" + href.split("/", 3)[-1]
rewrite_href(href) ==
    IF startswith_http(href)
    THEN <<"/">> \o split(href, "/", 3)[Len(split(href, "/", 3))]
    ELSE href

\* post_process_html: sanitizer_ok = FALSE is an exception while the page is
\* parsed or converted.  pp is the line the function logs; it returns None
\* in every case.
post_process_html(fs, dir, stem, title, blacklist, sanitizer_ok) ==
    IF ~sanitizer_ok THEN [files |-> fs, pp |-> "failed"]
    ELSE LET withMd == WriteFile(fs, dir, stem, "md", title)
         IN  IF blacklist # <<>> /\ blacklist_matches(blacklist, title) # <<>>
             THEN [files |-> RemoveFile(withMd, dir, stem, "md"),
                   pp |-> "rejected"]
             ELSE [files |-> RemoveFile(withMd, dir, stem, "html"),
                   pp |-> "converted"]

\* fallback_scrape_url returning True from its except block
fallback_scrape_url_true_on_error(fs, url, dir, blacklist, net_ok, title, sanitizer_ok) ==
    IF is_media_url(url)
    THEN [ret |-> FALSE, raised |-> FALSE, files |-> fs, pp |-> "none",
          requested |-> FALSE]
    ELSE IF ~net_ok
    THEN [ret |-> TRUE, raised |-> FALSE, files |-> fs, pp |-> "none",
          requested |-> TRUE]
    ELSE LET r == post_process_html(WriteFile(fs, dir, hash_url(url), "html", title),
                                    dir, hash_url(url), title, blacklist,
                                    sanitizer_ok)
         IN  [ret |-> TRUE, raised |-> FALSE, files |-> r.files, pp |-> r.pp,
              requested |-> TRUE]

\* fallback_scrape_url without its except block: a failed GET raises
fallback_scrape_url_uncaught(fs, url, dir, blacklist, net_ok, title, sanitizer_ok) ==
    IF is_media_url(url)
    THEN [ret |-> FALSE, raised |-> FALSE, files |-> fs, pp |-> "none",
          requested |-> FALSE]
    ELSE IF ~net_ok
    THEN [ret |-> FALSE, raised |-> TRUE, files |-> fs, pp |-> "none",
          requested |-> TRUE]
    ELSE LET r == post_process_html(WriteFile(fs, dir, hash_url(url), "html", title),
                                    dir, hash_url(url), title, blacklist,
                                    sanitizer_ok)
         IN  [ret |-> TRUE, raised |-> FALSE, files |-> r.files, pp |-> r.pp,
              requested |-> TRUE]

\* fallback_scrape_url: net_ok = FALSE is a failed GET (or a non-2xx status).
\* Every exception is caught: raised is always FALSE.
fallback_scrape_url(fs, url, dir, blacklist, net_ok, title, sanitizer_ok) ==
    IF is_media_url(url)
    THEN [ret |-> FALSE, raised |-> FALSE, files |-> fs, pp |-> "none",
          requested |-> FALSE]
    ELSE IF ~net_ok
    THEN [ret |-> FALSE, raised |-> FALSE, files |-> fs, pp |-> "none",
          requested |-> TRUE]
    ELSE LET r == post_process_html(WriteFile(fs, dir, hash_url(url), "html", title),
                                    dir, hash_url(url), title, blacklist,
                                    sanitizer_ok)
         IN  [ret |-> TRUE, raised |-> FALSE, files |-> r.files, pp |-> r.pp,
              requested |-> TRUE]

\* create_driver_with_retry(max_retries = 3)
max_retries == 3

\* no browser: the value of driver before create_driver_with_retry returns
NoDriver == [open |-> FALSE, attempts |-> 0, sleeps |-> <<>>]

\* create_driver_with_retry with wait_time = 2 * attempt
RECURSIVE create_driver_attempt_linear(_, _, _)
create_driver_attempt_linear(ok, attempt, slept) ==
    IF ok[attempt + 1]
    THEN [raised |-> FALSE, attempts |-> attempt + 1, sleeps |-> slept]
    ELSE IF attempt < max_retries - 1
    THEN create_driver_attempt_linear(ok, attempt + 1, Append(slept, 2 * attempt))
    ELSE [raised |-> TRUE, attempts |-> attempt + 1, sleeps |-> slept]

\* create_driver_with_retry, the loop from the turn `attempt` on: ok[i] tells
\* whether the i-th attempt gets a browser, slept lists the waits so far
RECURSIVE create_driver_attempt(_, _, _)
create_driver_attempt(ok, attempt, slept) ==
    IF ok[attempt + 1]
    THEN [raised |-> FALSE, attempts |-> attempt + 1, sleeps |-> slept]
    ELSE IF attempt < max_retries - 1
    THEN create_driver_attempt(ok, attempt + 1, Append(slept, 2 ^ attempt))
    ELSE [raised |-> TRUE, attempts |-> attempt + 1, sleeps |-> slept]

create_driver_with_retry(ok) == create_driver_attempt(ok, 0, <<>>)

\* the finally block of scrape_url with driver.quit() left out
driver_quit_skipped(d) == d

\* the finally block of scrape_url: driver.quit() when there is a driver; the
\* local variable ends with the call
driver_quit(d) == NoDriver

\* scrape_url, the try block: the outcome of the browser fetch.
\*   "ok"          the page was loaded; it is written and post-processed
\*   "err_driver"  create_driver_with_retry raised (no driver to close)
\*   "err_nav"     the page load raised a timeout / navigation error
\*   "err_other"   another exception, none of the fallback keywords in it
PrimaryOutcomes == {"ok", "err_driver", "err_nav", "err_other"}

\* the except block of scrape_url: is the fallback tried for this error
wants_fallback(primary) == primary \in {"err_driver", "err_nav"}

scrape_url_try(fs, url, dir, blacklist, primary, title, sanitizer_ok) ==
    IF primary = "ok"
    THEN LET r == post_process_html(WriteFile(fs, dir, hash_url(url), "html", title),
                                    dir, hash_url(url), title, blacklist,
                                    sanitizer_ok)
         IN  [ret |-> TRUE, files |-> r.files, pp |-> r.pp]
    ELSE [ret |-> FALSE, files |-> fs, pp |-> "none"]

(***************************************************************************)
(* Persisted dedup file, load_processed_urls / save_processed_urls.        *)
(***************************************************************************)
\* the file: whether it exists, whether json.load and set() accept what it
\* holds, and the hashes it lists
NoFile == [exists |-> FALSE, valid |-> TRUE, content |-> {}]

\* load_processed_urls without the try: the exception of json.load leaves
\* the function
load_outcome_uncaught(file) ==
    IF ~file.exists THEN [raised |-> FALSE, urls |-> {}]
    ELSE IF file.valid THEN [raised |-> FALSE, urls |-> file.content]
    ELSE [raised |-> TRUE, urls |-> {}]

\* load_processed_urls: whether it raises, and the set it returns
load_outcome(file) ==
    IF ~file.exists THEN [raised |-> FALSE, urls |-> {}]
    ELSE IF file.valid THEN [raised |-> FALSE, urls |-> file.content]
    ELSE [raised |-> FALSE, urls |-> {}]

load_processed_urls(file) == load_outcome(file).urls

save_processed_urls(processed) ==
    [exists |-> TRUE, valid |-> TRUE, content |-> processed]

(***************************************************************************)
(* config.ini and the scheduler, src/main.py: a configuration maps the     *)
(* names of its sections to their keys.                                    *)
(***************************************************************************)
\* config.sections() lists the sections in the order of the file
SectionOrder == <<"global", "news", "hn">>

\* a file without sections
EmptyConfig == [section \in {} |-> <<>>]

\* config.ini at the start
ConfigAtStart ==
    [global |-> [blacklist |-> "spam"],
     news |-> [url |-> "u1", interval |-> "60", blacklist |-> "ads"]]

\* the configurations the editor of the viewer saves
ConfigPool ==
    {ConfigAtStart,
     \* another interval
     [global |-> [blacklist |-> "spam"],
      news |-> [url |-> "u1", interval |-> "30", blacklist |-> "ads"]],
     \* a key changed
     [global |-> [blacklist |-> "spam"],
      news |-> [url |-> "u2", interval |-> "60", blacklist |-> "ads"]],
     \* a key removed
     [global |-> [blacklist |-> "spam"],
      news |-> [url |-> "u1", interval |-> "60"]],
     \* a key added
     [global |-> [blacklist |-> "spam"],
      news |-> [url |-> "u1", interval |-> "60", blacklist |-> "ads",
                type |-> "reddit"]],
     \* a source added, one without interval, and no [global]
     [news |-> [url |-> "u1", interval |-> "60", blacklist |-> "ads"],
      hn |-> [url |-> "u3"]]}

\* the sections of the configuration other than "global", in order
RECURSIVE pasture_sections(_, _)
pasture_sections(config, order) ==
    IF order = <<>> THEN <<>>
    ELSE IF Head(order) \in DOMAIN config /\ Head(order) # "global"
    THEN <<Head(order)>> \o pasture_sections(config, Tail(order))
    ELSE pasture_sections(config, Tail(order))

\* the file while it is open for writing, and after: open(..., 'w') empties
\* it, the content arrives when the file is closed
read_config(file) == IF file.complete THEN file.content ELSE EmptyConfig

\* clear_scheduler left out
clear_scheduler_skipped(jobs) == jobs

\* clear_scheduler: schedule.clear()
clear_scheduler(jobs) == <<>>

\* setup_scheduler: one job for every section but "global", with the
\* interval of the section or, if that is no number, with 60 minutes
setup_scheduler(jobs, config) == jobs \o pasture_sections(config, SectionOrder)

\* old_pastures of reload_config_and_reschedule
old_pastures(old_config) ==
    [section \in DOMAIN old_config \ {"global"} |-> old_config[section]]

\* is_modified: a key of the new section, other than interval, that the old
\* section has not or has with another value
is_modified(old_cfg, new_cfg) ==
    \E key \in DOMAIN new_cfg \ {"interval"} :
       \/ key \notin DOMAIN old_cfg
       \/ old_cfg[key] # new_cfg[key]

\* new_or_modified of reload_config_and_reschedule, in order
RECURSIVE new_or_modified(_, _, _)
new_or_modified(old, config, order) ==
    IF order = <<>> THEN <<>>
    ELSE IF /\ Head(order) \in DOMAIN config
            /\ Head(order) # "global"
            /\ \/ Head(order) \notin DOMAIN old
               \/ is_modified(old[Head(order)], config[Head(order)])
    THEN <<Head(order)>> \o new_or_modified(old, config, Tail(order))
    ELSE new_or_modified(old, config, Tail(order))

\* schedule.run_pending with every job in a thread of its own
run_thread_spawned(caller, id) == <<"worker", id>>

\* the thread a run executes on: run_single_scrape and
\* scrape_scheduled_pasture are plain calls, schedule.run_pending calls the
\* job; all of them run on the thread of the caller
run_thread(caller, id) == caller

\* the main loop once wait_for_reload has returned True: clear_reload(),
\* then reload_config_and_reschedule, which reads the file, scrapes the new
\* and modified sources and returns; then schedule.run_pending()
next_step(step) ==
    CASE step = "wait" -> "clear"
      [] step = "clear" -> "reload"
      [] step = "reload" -> "immediate"
      [] step = "immediate" -> "pending"

\* the except block of scrape_pasture returning the set as it was loaded
after_failure_reloaded(loaded, urls) == loaded

\* the except block of scrape_pasture: return processed_urls, the set the
\* loop has added to
after_failure(loaded, urls) == urls

\* the hashes of the items the feeds hold
Hashes == {"h1", "h2"}

(***************************************************************************)
(* State.                                                                  *)
(*   pc              where the main thread is                              *)
(*   processed_file  output/processed_urls.json                            *)
(*   processed_urls  the Dedup Set of the run                              *)
(*   stats           the StatsTracker session_stats of the run             *)
(*   files           the output tree                                       *)
(*   sections        the sections run_single_scrape has still to visit     *)
(*   pasture         the adapter scrape_pasture is running                 *)
(*   todo            the part of filtered_posts the loop has not reached   *)
(*   driver          the browser of the scrape_url call in progress        *)
(*   item            what happened to the item the loop handled last       *)
(*   section_log     what happened to each section of the run so far       *)
(*   delivered       the number of posts the feeds have returned so far    *)
(*   failed_now      the URLs no fetch of this run has obtained            *)
(*   failed_earlier  the same, of the runs before this one                 *)
(*   norm            a URL given to normalize_url / hash_url on its own:   *)
(*                   the URL, how it was derived, the hash of the URL it   *)
(*                   was derived from, the results of normalize_url        *)
(*   call            a method called on its own: its name, its arguments   *)
(*                   and, once it has returned, its result                 *)
(*   saved           output/stats.json under save_session_stats: the       *)
(*                   content of the file, the calendar day, the number of  *)
(*                   saves since the start and ever, the days a save was   *)
(*                   made on, the days gone by, and of the last save the   *)
(*                   day, the session and the entry the day had before     *)
(*   sched           main() in scheduled mode and the thread of the HTTP   *)
(*                   server: where the main loop is, the configuration it  *)
(*                   holds, config.ini, the request in progress, the       *)
(*                   reload event, the jobs of the scheduler, the sources  *)
(*                   to scrape at once, the jobs run_pending has still to  *)
(*                   look at, processed_urls.json, the runs in             *)
(*                   progress; and the triggers issued, the triggers       *)
(*                   issued when the file was last read, the last run      *)
(*                   finished, the hashes saved so far, the last reload.   *)
(*                   A run has the set it loaded, the set it holds, the    *)
(*                   hashes it marked, whether a source failed in its item *)
(*                   loop and what had been marked before it did           *)
(***************************************************************************)
VARIABLES pc, processed_file, processed_urls, stats, files, sections,
          pasture, todo, driver, item, section_log, delivered,
          failed_now, failed_earlier, norm, call, saved, sched

vars == <<pc, processed_file, processed_urls, stats, files, sections,
          pasture, todo, driver, item, section_log, delivered,
          failed_now, failed_earlier, norm, call, saved, sched>>

\* the state of a run
run_vars == <<pc, processed_file, processed_urls, stats, files, sections,
              pasture, todo, driver, item, section_log, delivered,
              failed_now, failed_earlier>>

\* no method called on its own
NoCall == [fn |-> "none", done |-> FALSE]

\* no statistics saved
NoSaved ==
    [all_stats |-> EmptyStats, today |-> 0, saves |-> 0, run |-> 0,
     dates |-> {}, days |-> 0, date |-> 0, prev_day |-> ZeroDay,
     session |-> ZeroSession]

\* no run finished
NoRun ==
    [kind |-> "none", loaded |-> {}, marked |-> {}, urls |-> {},
     failed |-> FALSE, before |-> {}]

\* no reload made
NoReload ==
    [old |-> EmptyConfig, new |-> EmptyConfig, complete |-> TRUE,
     scraped |-> <<>>, count |-> 0]

\* the main loop not started
NoSched ==
    [pc |-> "off", config |-> EmptyConfig,
     config_file |-> [complete |-> TRUE, content |-> EmptyConfig],
     http |-> "idle", writes |-> 0, event |-> FALSE, triggers |-> 0,
     seen |-> 0, jobs |-> <<>>, queue |-> <<>>, due |-> <<>>,
     dedup_file |-> NoFile,
     runs |-> {}, last |-> NoRun,
     recorded |-> {}, reload |-> NoReload]

\* what a run leaves alone
aside == <<norm, call, saved, sched>>

\* no URL under normalisation
NoNorm == [url |-> <<>>, kind |-> "none", base |-> <<>>, out |-> <<>>]

NoPasture == [name |-> "none", config |-> [none |-> <<>>], type |-> "none"]

NoItem ==
    [url |-> <<>>, source |-> "none", primary |-> "none", requests |-> 0,
     fetched |-> FALSE, via |-> "none", pp |-> "none", result |-> "none",
     scraped0 |-> 0, rejected0 |-> 0, errors0 |-> 0]

RunInit ==
    /\ pc = "idle"
    /\ processed_file = NoFile
    /\ processed_urls = {}
    /\ stats = StatsTracker
    /\ files = {}
    /\ sections = <<>>
    /\ pasture = NoPasture
    /\ todo = <<>>
    /\ driver = NoDriver
    /\ item = NoItem
    /\ section_log = <<>>
    /\ delivered = 0
    /\ failed_now = {}
    /\ failed_earlier = {}

Init ==
    RunInit /\ norm = NoNorm /\ call = NoCall /\ saved = NoSaved /\ sched = NoSched

\* the entry of the section in progress
Cur == section_log[Len(section_log)]

SetCur(field, value) ==
    [section_log EXCEPT ![Len(section_log)][field] = value]

\* run_single_scrape, up to the loop over the sections
StartRun ==
    /\ pc = "idle"
    /\ UNCHANGED aside
    /\ processed_urls' = load_processed_urls(processed_file)
    /\ stats' = StatsTracker
    /\ sections' = ConfigSections
    /\ section_log' = <<>>
    /\ pc' = "sections"
    /\ UNCHANGED <<processed_file, files, pasture, todo, driver, item,
                   delivered, failed_now, failed_earlier>>

\* the except block around the loop instead of inside it: the run is over
after_setup_error_abort(rest) == <<>>

\* run_single_scrape, the except block inside the loop over the sections:
\* the loop goes on with the next section
after_setup_error(rest) == Tail(rest)

\* run_single_scrape, one turn of the loop up to the call of scrape_pasture:
\* "global" is skipped, an exception of create_pasture is logged
NextSection ==
    /\ pc = "sections"
    /\ UNCHANGED aside
    /\ sections # <<>>
    /\ LET section == Head(sections)
           made == create_pasture(section, merge_config(section))
       IN  IF section = "global"
           THEN /\ sections' = Tail(sections)
                /\ UNCHANGED <<pc, pasture, section_log>>
           ELSE IF made.raised
           THEN /\ sections' = after_setup_error(sections)
                /\ section_log' = Append(section_log,
                       [name |-> section, result |-> "setup_error",
                        errors0 |-> stats.errors, errors1 |-> stats.errors,
                        handled |-> 0, total |-> -1, converted |-> 0,
                        urls |-> <<>>, dedup0 |-> {}, files0 |-> {}])
                /\ UNCHANGED <<pc, pasture>>
           ELSE /\ pasture' = made.pasture
                /\ section_log' = Append(section_log,
                       [name |-> section, result |-> "running",
                        errors0 |-> stats.errors, errors1 |-> stats.errors,
                        handled |-> 0, total |-> -1, converted |-> 0,
                        urls |-> <<>>, dedup0 |-> {}, files0 |-> {}])
                /\ pc' = "fetch"
                /\ UNCHANGED sections
    /\ UNCHANGED <<processed_file, processed_urls, stats, files, todo,
                   driver, item, delivered, failed_now, failed_earlier>>

\* the except block of scrape_pasture: the error is counted, the set returned
PastureFailed(st) ==
    /\ stats' = increment_error(st)
    /\ section_log' = [section_log EXCEPT
                          ![Len(section_log)].result = "error",
                          ![Len(section_log)].errors1 = increment_error(st).errors,
                          ![Len(section_log)].urls = <<>>,
                          ![Len(section_log)].dedup0 = {},
                          ![Len(section_log)].files0 = {}]
    /\ sections' = Tail(sections)
    /\ pasture' = NoPasture
    /\ todo' = <<>>
    /\ pc' = "sections"

\* the lists of at most n posts a feed of that type may return
Feeds(type, n) ==
    IF type = "hackernews" THEN SeqsUpTo(HackerNewsPool, n)
    ELSE SeqsUpTo(RedditPool, n)

\* the smaller of two numbers
Min(a, b) == IF a <= b THEN a ELSE b

\* scrape_pasture up to the loop: add_source, fetch_posts, set_stats_tracker,
\* filter_posts, get_output_directory, get_tags_to_remove, get_blacklist.
\* An exception of fetch_posts or filter_posts reaches the except block; a
\* request the server never answers returns only if it has a timeout (a
\* requests.Timeout, which fetch_posts catches).
FetchAndFilter ==
    /\ pc = "fetch"
    /\ UNCHANGED aside
    /\ \E outcome \in {"ok", "request_error", "raise", "no_response"} :
       \E feed \in IF outcome = "ok"
                   THEN Feeds(pasture.type, Min(MaxPosts, MaxDelivered - delivered))
                   ELSE {<<>>} :
          /\ delivered + Len(feed) <= MaxDelivered
          /\ delivered' = delivered + Len(feed)
          /\ LET st == add_source(stats, pasture.name)
                 fetched == fetch_posts(pasture, outcome, feed)
                 filtered == filter_posts(pasture, fetched.posts, st)
             IN  IF outcome = "no_response" /\ fetch_timeout(pasture.type) = 0
                 THEN /\ stats' = st
                      /\ pc' = "blocked"
                      /\ UNCHANGED <<todo, section_log, sections, pasture>>
                 ELSE IF fetched.raised
                 THEN PastureFailed(st)
                 ELSE IF filtered.raised
                 THEN PastureFailed(filtered.stats)
                 ELSE /\ stats' = filtered.stats
                      /\ todo' = filtered.posts
                      /\ section_log' =
                            [section_log EXCEPT
                               ![Len(section_log)].total = Len(filtered.posts),
                               ![Len(section_log)].urls =
                                   [i \in 1..Len(filtered.posts) |->
                                       get_url_from_post(filtered.posts[i])],
                               ![Len(section_log)].dedup0 = processed_urls,
                               ![Len(section_log)].files0 = files]
                      /\ pc' = "loop"
                      /\ UNCHANGED <<sections, pasture>>
    /\ UNCHANGED <<processed_file, processed_urls, files, driver, item,
                   failed_now, failed_earlier>>

\* the item the loop turns to
NewItem(url) ==
    [url |-> url, source |-> pasture.name, primary |-> "none", requests |-> 0,
     fetched |-> FALSE, via |-> "none", pp |-> "none", result |-> "none",
     scraped0 |-> stats.articles_scraped,
     rejected0 |-> stats.articles_rejected_blacklist,
     errors0 |-> stats.errors]

\* the loop moves on to the next post
ItemDoneWith(conv) ==
    /\ todo' = Tail(todo)
    /\ section_log' = [section_log EXCEPT
                          ![Len(section_log)].handled = @ + 1,
                          ![Len(section_log)].converted = @ + conv]
    /\ pc' = "loop"

ItemDone == ItemDoneWith(0)

\* the record of the URLs whose every fetch failed: it.fetched tells whether
\* some fetch of the item obtained the page
Attempted(it) ==
    /\ failed_now' = IF it.fetched THEN failed_now \ {it.url}
                                   ELSE failed_now \cup {it.url}
    /\ failed_earlier' = IF it.fetched THEN failed_earlier \ {it.url}
                                       ELSE failed_earlier

\* scrape_pasture, the head of a loop turn: the media check and the dedup gate
LoopNext ==
    /\ pc = "loop"
    /\ UNCHANGED aside
    /\ todo # <<>>
    /\ LET external_url == get_url_from_post(Head(todo))
       IN  IF is_media_url(external_url)
           THEN /\ item' = [NewItem(external_url) EXCEPT !.result = "media"]
                /\ ItemDone
                /\ UNCHANGED stats
           ELSE IF should_scrape_url(external_url, processed_urls)
           THEN /\ item' = NewItem(external_url)
                /\ pc' = "scrape_url"
                /\ UNCHANGED <<stats, todo, section_log>>
           ELSE /\ item' = [NewItem(external_url) EXCEPT !.result = "duplicate"]
                /\ stats' = increment_duplicate(stats)
                /\ ItemDone
    /\ UNCHANGED <<processed_file, processed_urls, files, sections,
                   pasture, driver, delivered, failed_now, failed_earlier>>

\* scrape_pasture, a call that returned True: the URL is marked and counted
Scraped(it) ==
    /\ processed_urls' = mark_url_processed(it.url, processed_urls)
    /\ stats' = increment_scraped(stats, pasture.name)
    /\ item' = [it EXCEPT !.result = "scraped"]
    /\ Attempted(it)
    /\ ItemDoneWith(IF it.pp = "converted" THEN 1 ELSE 0)

\* scrape_url up to driver.get: create_driver_with_retry; when it raises, the
\* except block goes on to the fallback (the message names the driver)
CreateDriver ==
    /\ pc = "scrape_url"
    /\ UNCHANGED aside
    /\ \E ok \in [1..max_retries -> BOOLEAN] :
          LET made == create_driver_with_retry(ok)
          IN  /\ driver' = [open |-> ~made.raised, attempts |-> made.attempts,
                            sleeps |-> made.sleeps]
              /\ IF made.raised
                 THEN /\ item' = [item EXCEPT !.primary = "err_driver"]
                      /\ pc' = IF wants_fallback("err_driver")
                               THEN "inner_fallback" ELSE "outer_fallback"
                 ELSE /\ pc' = "page_load"
                      /\ UNCHANGED item
    /\ UNCHANGED <<processed_file, processed_urls, stats, files, sections,
                   pasture, todo, section_log, delivered, failed_now,
                   failed_earlier>>

\* scrape_url, the rest of the try block; the finally block closes the
\* driver unless the except block goes on to the fallback
ScrapeUrl ==
    /\ pc = "page_load"
    /\ UNCHANGED aside
    /\ \E primary \in PrimaryOutcomes \ {"err_driver"}, title \in PageTitles,
          sanitizer_ok \in BOOLEAN :
          /\ primary # "ok" => title = CleanTitle /\ sanitizer_ok
          /\ LET r == scrape_url_try(files, item.url, get_output_directory(pasture),
                                     get_blacklist(pasture), primary, title,
                                     sanitizer_ok)
                 it == [item EXCEPT !.primary = primary,
                                    !.fetched = (primary = "ok"),
                                    !.via = IF primary = "ok" THEN "primary" ELSE @,
                                    !.pp = r.pp]
             IN  /\ files' = r.files
                 /\ IF r.ret
                    THEN /\ Scraped(it)
                         /\ driver' = driver_quit(driver)
                    ELSE IF wants_fallback(primary)
                    THEN /\ item' = it
                         /\ UNCHANGED driver
                         /\ pc' = "inner_fallback"
                         /\ UNCHANGED <<processed_urls, stats, todo, section_log,
                                        failed_now, failed_earlier>>
                    ELSE /\ item' = it
                         /\ driver' = driver_quit(driver)
                         /\ pc' = "outer_fallback"
                         /\ UNCHANGED <<processed_urls, stats, todo, section_log,
                                        failed_now, failed_earlier>>
    /\ UNCHANGED <<processed_file, sections, pasture, delivered>>

\* what a fallback call adds to the record of the item; got tells whether
\* the GET of the call obtained the page
AfterFallback(it, r, which, got) ==
    [it EXCEPT !.requests = @ + (IF r.requested THEN 1 ELSE 0),
               !.fetched = got,
               !.via = IF got THEN which ELSE @,
               !.pp = r.pp]

\* scrape_url, the except block: fallback_scrape_url is called without the
\* blacklist, then the finally block closes the driver
InnerFallback ==
    /\ pc = "inner_fallback"
    /\ UNCHANGED aside
    /\ \E net_ok \in BOOLEAN, title \in PageTitles, sanitizer_ok \in BOOLEAN :
          /\ ~net_ok => title = CleanTitle /\ sanitizer_ok
          /\ LET r == fallback_scrape_url(files, item.url,
                                          get_output_directory(pasture), <<>>,
                                          net_ok, title, sanitizer_ok)
                 it == AfterFallback(item, r, "inner", r.requested /\ net_ok)
             IN  /\ files' = r.files
                 /\ driver' = driver_quit(driver)
                 /\ IF r.raised
                    THEN /\ PastureFailed(stats)
                         /\ item' = [it EXCEPT !.result = "raised"]
                         /\ Attempted(it)
                         /\ UNCHANGED processed_urls
                    ELSE IF r.ret
                    THEN /\ Scraped(it)
                         /\ UNCHANGED <<sections, pasture>>
                    ELSE /\ item' = it
                         /\ pc' = "outer_fallback"
                         /\ UNCHANGED <<processed_urls, stats, todo, section_log,
                                        sections, pasture, failed_now,
                                        failed_earlier>>
    /\ UNCHANGED <<processed_file, delivered>>

\* scrape_pasture, the else branch: scrape_url returned False and
\* fallback_scrape_url is called with the blacklist
OuterFallback ==
    /\ pc = "outer_fallback"
    /\ UNCHANGED aside
    /\ \E net_ok \in BOOLEAN, title \in PageTitles, sanitizer_ok \in BOOLEAN :
          /\ ~net_ok => title = CleanTitle /\ sanitizer_ok
          /\ LET r == fallback_scrape_url(files, item.url,
                                          get_output_directory(pasture),
                                          get_blacklist(pasture),
                                          net_ok, title, sanitizer_ok)
                 it == AfterFallback(item, r, "outer", r.requested /\ net_ok)
             IN  /\ files' = r.files
                 /\ IF r.raised
                    THEN /\ PastureFailed(stats)
                         /\ item' = [it EXCEPT !.result = "raised"]
                         /\ Attempted(it)
                         /\ UNCHANGED processed_urls
                    ELSE IF r.ret
                    THEN /\ Scraped(it)
                         /\ UNCHANGED <<sections, pasture>>
                    ELSE /\ item' = [it EXCEPT !.result = "failed"]
                         /\ Attempted(it)
                         /\ ItemDone
                         /\ UNCHANGED <<processed_urls, stats, sections, pasture>>
    /\ UNCHANGED <<processed_file, driver, delivered>>

\* scrape_pasture returns the set once the loop is over
FinishPasture ==
    /\ pc = "loop"
    /\ UNCHANGED aside
    /\ todo = <<>>
    /\ section_log' = [section_log EXCEPT
                          ![Len(section_log)].result = "ok",
                          ![Len(section_log)].urls = <<>>,
                          ![Len(section_log)].dedup0 = {},
                          ![Len(section_log)].files0 = {}]
    /\ sections' = Tail(sections)
    /\ pasture' = NoPasture
    /\ pc' = "sections"
    /\ UNCHANGED <<processed_file, processed_urls, stats, files, todo,
                   driver, item, delivered, failed_now, failed_earlier>>

\* run_single_scrape after the loop: save_processed_urls; the set, the
\* statistics and the records of the run end with the call
EndRun ==
    /\ pc = "sections"
    /\ UNCHANGED aside
    /\ sections = <<>>
    /\ processed_file' = save_processed_urls(processed_urls)
    /\ processed_urls' = {}
    /\ stats' = StatsTracker
    /\ section_log' = <<>>
    /\ item' = NoItem
    /\ failed_earlier' = failed_earlier \cup failed_now
    /\ failed_now' = {}
    /\ pc' = "idle"
    /\ UNCHANGED <<files, sections, pasture, todo, driver, delivered>>

Next ==
    \/ StartRun
    \/ NextSection
    \/ FetchAndFilter
    \/ LoopNext
    \/ CreateDriver
    \/ ScrapeUrl
    \/ InnerFallback
    \/ OuterFallback
    \/ FinishPasture
    \/ EndRun

Spec == Init /\ [][Next]_vars

(***************************************************************************)
(* normalize_url and hash_url on their own: a URL is put together from a   *)
(* path, query parameters and a fragment, variants of it are derived, and  *)
(* normalize_url is applied to it and to its own result.                   *)
(***************************************************************************)
\* parameters in the query of a URL
MaxParams == 3

NormHost == <<"https://x.com">>

NormPaths == {<<>>, <<"/">>, <<"/", "a">>, <<"/", "a", "/">>}

\* name=value pairs, two of them with the same name
NormParams ==
    {<< <<"b">>, <<"1">> >>, << <<"c">>, <<"2">> >>, << <<"b">>, <<"3">> >>,
     << <<"utm_source">>, <<"y">> >>}

NormFragments == {<<>>, <<"f">>, <<"/">>}

\* names of the denylist, in several cases
TrackingNames == {"utm_source", "UTM_SOURCE", "cmp"}

\* the URL with that path, those parameters and that fragment
make_url(path, params, fragment) ==
    urlunparse(NormHost, path, urlencode(params), fragment)

\* the parsed URL with one more parameter, in front of or behind the others
add_param_parsed(p, pair, first) ==
    urlunparse(p.netloc, p.path,
               IF p.query = <<>> THEN urlencode(<<pair>>)
               ELSE IF first THEN urlencode(<<pair>>) \o <<"&">> \o p.query
               ELSE p.query \o <<"&">> \o urlencode(<<pair>>),
               p.fragment)

add_param(url, pair, first) == add_param_parsed(urlparse(url), pair, first)

\* the parsed URL with one "/" appended to its path
append_slash_parsed(p) ==
    urlunparse(p.netloc, p.path \o <<"/">>, p.query, p.fragment)

append_slash(url) == append_slash_parsed(urlparse(url))

NormInit ==
    /\ RunInit
    /\ call = NoCall
    /\ saved = NoSaved
    /\ sched = NoSched
    /\ \E path \in NormPaths, params \in SeqsUpTo(NormParams, MaxParams),
          fragment \in NormFragments :
          norm = [url |-> make_url(path, params, fragment), kind |-> "input",
                  base |-> <<>>, out |-> <<>>]

\* normalize_url applied to the URL, then to its own result
Normalize ==
    /\ Len(norm.out) < 2
    /\ norm' = [norm EXCEPT !.out =
                   Append(@, normalize_url(IF @ = <<>> THEN norm.url
                                           ELSE @[Len(@)]))]
    /\ UNCHANGED <<run_vars, call, saved, sched>>

\* a parameter of the denylist is added to the query; base keeps the hash
\* of the URL without it
AddTrackingParam ==
    /\ norm.kind = "input"
    /\ norm.out = <<>>
    /\ \E name \in TrackingNames, first \in BOOLEAN :
          norm' = [norm EXCEPT
                     !.url = add_param(@, << <<name>>, <<"y">> >>, first),
                     !.kind = "tracked",
                     !.base = hash_url(norm.url)]
    /\ UNCHANGED <<run_vars, call, saved, sched>>

\* a "/" is appended to the path; base keeps the hash of the URL without it
AppendSlash ==
    /\ norm.kind = "input"
    /\ norm.out = <<>>
    /\ norm' = [norm EXCEPT !.url = append_slash(@),
                            !.kind = "slashed",
                            !.base = hash_url(norm.url)]
    /\ UNCHANGED <<run_vars, call, saved, sched>>

NormNext ==
    \/ Normalize
    \/ AddTrackingParam
    \/ AppendSlash

NormSpec == NormInit /\ [][NormNext]_vars

(***************************************************************************)
(* The methods of the adapters and of the factory called on their own:     *)
(* the arguments are drawn at the start, the call fills in the result.     *)
(***************************************************************************)
\* items in the list given to filter_posts
MaxFeed == 2

\* the adapters filter_posts is called on, each with the configuration the
\* merge of run_single_scrape hands it
FilterPastures ==
    {[name |-> "news", type |-> "reddit",
      config |-> merge([blacklist |-> <<"politics">>], [blacklist |-> <<"spam">>])],
     [name |-> "hn", type |-> "hackernews",
      config |-> merge([blacklist |-> <<"ads">>], [blacklist |-> <<"spam">>])]}
    \cup {[name |-> "feed", type |-> "rss",
           config |-> merge(c, [blacklist |-> <<"spam">>])] :
             c \in {[blacklist |-> <<"ads">>],
                    [blacklist |-> <<"ads">>, max_age_days |-> <<"1">>],
                    [blacklist |-> <<"ads">>, max_age_days |-> <<"2">>]}}

\* the lists of at most n items a feed of that type may return
FeedPool(type, n) ==
    IF type = "rss" THEN SeqsUpTo(RssPool, n) ELSE Feeds(type, n)

\* the [global] sections of config.ini get_tags_to_remove is tried with
GlobalSections ==
    {[blacklist |-> <<"spam">>],
     [blacklist |-> <<"spam">>, remove_tags |-> <<"script">>],
     [blacklist |-> <<"spam">>, remove_tags |-> <<"script", ",", "style">>]}

\* the sections of a source
SourceSections ==
    {[url |-> UrlA]}
    \cup {[url |-> UrlA, remove_tags |-> tags] :
             tags \in {<<"nav">>, <<"script">>, <<"-style">>, <<"-nav">>,
                       <<"-style", ",", "nav">>, <<"style", ",", "nav">>}}

\* the URLs of a source section, by what they contain
SourceUrls ==
    [reddit |-> <<"https://www.reddit.com", "/", "r", "/", "news.json">>,
     hn_domain |-> <<"https://news.ycombinator.com", "/">>,
     hn_api |-> <<"https://hacker-news.firebaseio.com", "/", "v0">>,
     hn_word |-> <<"https://x.com", "/", "hackernews">>,
     other |-> <<"https://x.com", "/", "feed.xml">>]

\* the values of the type field of a source section
SourceTypes == {"reddit", "hackernews", "rss", "mastodon"}

\* the section of a source with that URL and that type; "none" stands for
\* a section without the key
TypedSection(url_kind, type) ==
    IF url_kind = "none" /\ type = "none" THEN [interval |-> <<"60">>]
    ELSE IF url_kind = "none" THEN [type |-> <<type>>]
    ELSE IF type = "none" THEN [url |-> SourceUrls[url_kind]]
    ELSE [url |-> SourceUrls[url_kind], type |-> <<type>>]

\* the href attributes of the anchors of a page; "/" is a token of its own
HrefPool ==
    {<<"https:", "/", "/", "site.com", "/", "a", "/", "b", "/", "c">>,
     <<"http:", "/", "/", "site.com", "/", "a">>,
     <<"https:", "/", "/", "site.com", "/", "a", "/", "b", "?", "x=1">>,
     <<"https:", "/", "/", "site.com", "/">>,
     <<"https:", "/", "/", "site.com">>,
     <<"httpx", "/", "y">>,
     <<"/", "b", "/", "c">>,
     <<"b", "/", "c">>,
     <<"mailto:me@site.com">>,
     <<>>}

CallInit ==
    /\ RunInit
    /\ norm = NoNorm
    /\ saved = NoSaved
    /\ sched = NoSched
    /\ \/ \E p \in FilterPastures :
          \E f \in FeedPool(p.type, MaxFeed) :
             call = [fn |-> "filter_posts", done |-> FALSE,
                     pasture |-> p, posts |-> f]
       \/ \E g \in GlobalSections, c \in SourceSections :
             call = [fn |-> "get_tags_to_remove", done |-> FALSE,
                     global |-> g, section |-> c, config |-> merge(c, g)]
       \/ \E url_kind \in DOMAIN SourceUrls \cup {"none"},
             type \in SourceTypes \cup {"none"}, g \in GlobalSections :
             call = [fn |-> "create_pasture", done |-> FALSE,
                     url_kind |-> url_kind, type |-> type,
                     config |-> merge(TypedSection(url_kind, type), g)]
       \/ \E href \in HrefPool :
             call = [fn |-> "rewrite_href", done |-> FALSE, href |-> href]

\* pasture.set_stats_tracker(stats_tracker); pasture.filter_posts(posts)
CallFilterPosts ==
    /\ call.fn = "filter_posts"
    /\ ~call.done
    /\ call' = [fn |-> "filter_posts", done |-> TRUE,
                pasture |-> call.pasture, posts |-> call.posts,
                ret |-> filter_posts(call.pasture, call.posts, StatsTracker)]
    /\ UNCHANGED <<run_vars, norm, saved, sched>>

\* tags_to_remove = pasture.get_tags_to_remove(), for an adapter created
\* with the merged configuration
CallGetTagsToRemove ==
    /\ call.fn = "get_tags_to_remove"
    /\ ~call.done
    /\ call' = [fn |-> "get_tags_to_remove", done |-> TRUE,
                global |-> call.global, section |-> call.section,
                config |-> call.config,
                ret |-> get_tags_to_remove(call.config)]
    /\ UNCHANGED <<run_vars, norm, saved, sched>>

\* PastureFactory.create_pasture(section, pasture_config)
CallCreatePasture ==
    /\ call.fn = "create_pasture"
    /\ ~call.done
    /\ call' = [fn |-> "create_pasture", done |-> TRUE,
                url_kind |-> call.url_kind, type |-> call.type,
                config |-> call.config,
                ret |-> create_pasture("source", call.config)]
    /\ UNCHANGED <<run_vars, norm, saved, sched>>

\* post_process_html reaches an anchor with that href
CallRewriteHref ==
    /\ call.fn = "rewrite_href"
    /\ ~call.done
    /\ call' = [fn |-> "rewrite_href", done |-> TRUE, href |-> call.href,
                ret |-> rewrite_href(call.href)]
    /\ UNCHANGED <<run_vars, norm, saved, sched>>

CallNext ==
    \/ CallFilterPosts
    \/ CallGetTagsToRemove
    \/ CallCreatePasture
    \/ CallRewriteHref

CallSpec == CallInit /\ [][CallNext]_vars

(***************************************************************************)
(* save_session_stats over many runs: the file starts absent; for a while  *)
(* there is one run a day that scrapes nothing, then runs of any kind are  *)
(* saved and days go by in any order.                                      *)
(***************************************************************************)
\* saves, and days gone by, after the quiet days
MaxSaves == 2

\* the file and the counters after a save of the session on the date
after_save(session, date) ==
    [saved EXCEPT
       !.all_stats = save_session_stats(@, session, date, saved.run + 1),
       !.today = date,
       !.run = @ + 1,
       !.dates = @ \cup {date},
       !.date = date,
       !.prev_day = day_entry(saved.all_stats.daily, date),
       !.session = session]

StatsInit ==
    /\ RunInit
    /\ norm = NoNorm
    /\ call = NoCall
    /\ saved = NoSaved
    /\ sched = NoSched

\* a day goes by and its one run, which scraped nothing, is saved
QuietDay ==
    /\ saved.saves = 0
    /\ saved.days = 0
    /\ saved.run <= max_sessions
    /\ saved' = after_save(ZeroSession, saved.today + 1)
    /\ UNCHANGED <<run_vars, norm, call, sched>>

\* stats_tracker.save_session_stats() at the end of a run
SaveSessionStats ==
    /\ saved.saves < MaxSaves
    /\ \E session \in SessionPool :
          saved' = [after_save(session, saved.today) EXCEPT !.saves = @ + 1]
    /\ UNCHANGED <<run_vars, norm, call, sched>>

\* midnight: datetime.now() is on the next calendar day
NextDay ==
    /\ saved.days < MaxSaves
    /\ saved' = [saved EXCEPT !.today = @ + 1, !.days = @ + 1]
    /\ UNCHANGED <<run_vars, norm, call, sched>>

StatsNext ==
    \/ QuietDay
    \/ SaveSessionStats
    \/ NextDay

StatsSpec == StatsInit /\ [][StatsNext]_vars

(***************************************************************************)
(* main() in scheduled mode: the initial run, the loop that waits for the  *)
(* reload event, reloads and runs the jobs that are due; next to it the    *)
(* thread of the HTTP server, which saves config.ini and sets the event.   *)
(* A run is scrape_pasture reduced to what it does to the Dedup Set.       *)
(***************************************************************************)
\* POST /api/config requests
MaxWrites == 2

\* processed_urls.json as an earlier process may have left it: absent,
\* complete, or cut short by an interrupted write
DedupFiles ==
    {NoFile,
     save_processed_urls({"h1"}),
     [exists |-> TRUE, valid |-> FALSE, content |-> {}]}

MainInit ==
    /\ RunInit
    /\ norm = NoNorm
    /\ call = NoCall
    /\ saved = NoSaved
    /\ \E file \in DedupFiles :
          sched = [NoSched EXCEPT
                     !.pc = "initial",
                     !.config = ConfigAtStart,
                     !.config_file = [complete |-> TRUE,
                                      content |-> ConfigAtStart],
                     !.dedup_file = file,
                     !.recorded = load_processed_urls(file)]

\* the main thread moves on to that step; schedule.run_pending() goes
\* through the jobs the scheduler holds when it is called
goto(state, step) ==
    IF step = "pending"
    THEN [state EXCEPT !.pc = step, !.due = state.jobs]
    ELSE [state EXCEPT !.pc = step]

\* the main thread is not inside a run
MainFree == \A r \in sched.runs : r.thread # "main"

\* a run of that kind begins on its thread
start_run(state, kind, section) ==
    [state EXCEPT
       !.runs = @ \cup {[id |-> Cardinality(state.runs) + 1,
                         thread |-> run_thread("main",
                                               Cardinality(state.runs) + 1),
                         kind |-> kind, section |-> section,
                         stage |-> "start", loaded |-> {}, marked |-> {},
                         urls |-> {}, failed |-> FALSE, before |-> {}]}]

\* the run with the fields of r replaced
with_run(state, r, new) ==
    [state EXCEPT !.runs = (@ \ {r}) \cup {new}]

\* main: run_single_scrape(config)
InitialRun ==
    /\ sched.pc = "initial"
    /\ sched' = [start_run(sched, "single", "all") EXCEPT !.pc = "setup"]
    /\ UNCHANGED <<run_vars, norm, call, saved>>

\* main: setup_scheduler(config)
SetupScheduler ==
    /\ sched.pc = "setup"
    /\ MainFree
    /\ sched' = [sched EXCEPT !.jobs = setup_scheduler(@, sched.config),
                              !.pc = "wait"]
    /\ UNCHANGED <<run_vars, norm, call, saved>>

\* the loop: if wait_for_reload(timeout=0.1)
WaitForReload ==
    /\ sched.pc = "wait"
    /\ MainFree
    /\ sched' = goto(sched, IF sched.event THEN next_step("wait")
                            ELSE "pending")
    /\ UNCHANGED <<run_vars, norm, call, saved>>

\* the loop: clear_reload()
ClearReload ==
    /\ sched.pc = "clear"
    /\ MainFree
    /\ sched' = goto([sched EXCEPT !.event = FALSE], next_step("clear"))
    /\ UNCHANGED <<run_vars, norm, call, saved>>

\* reload_config_and_reschedule up to the immediate scrapes: config.read,
\* clear_scheduler, setup_scheduler, new_or_modified
ReloadConfig ==
    /\ sched.pc = "reload"
    /\ MainFree
    /\ sched' = goto([sched EXCEPT
         !.config = read_config(sched.config_file),
         !.jobs = setup_scheduler(clear_scheduler(@),
                                  read_config(sched.config_file)),
         !.queue = new_or_modified(old_pastures(sched.config),
                                   read_config(sched.config_file),
                                   SectionOrder),
         !.seen = sched.triggers,
         !.reload = [old |-> sched.config,
                     new |-> read_config(sched.config_file),
                     complete |-> sched.config_file.complete,
                     scraped |-> new_or_modified(old_pastures(sched.config),
                                     read_config(sched.config_file),
                                     SectionOrder),
                     count |-> @.count + 1]],
         next_step("reload"))
    /\ UNCHANGED <<run_vars, norm, call, saved>>

\* reload_config_and_reschedule: scrape_scheduled_pasture(section, config)
\* for the next new or modified source
ImmediateScrape ==
    /\ sched.pc = "immediate"
    /\ MainFree
    /\ sched.queue # <<>>
    /\ sched' = [start_run(sched, "reload", Head(sched.queue)) EXCEPT
                   !.queue = Tail(@)]
    /\ UNCHANGED <<run_vars, norm, call, saved>>

\* reload_config_and_reschedule returns
ImmediateDone ==
    /\ sched.pc = "immediate"
    /\ MainFree
    /\ sched.queue = <<>>
    /\ sched' = goto(sched, next_step("immediate"))
    /\ UNCHANGED <<run_vars, norm, call, saved>>

\* schedule.run_pending(): the next job is due and is run
RunPendingJob ==
    /\ sched.pc = "pending"
    /\ MainFree
    /\ sched.due # <<>>
    /\ sched' = [start_run(sched, "scheduled", Head(sched.due)) EXCEPT
                   !.due = Tail(@)]
    /\ UNCHANGED <<run_vars, norm, call, saved>>

\* schedule.run_pending(): the next job is not due yet
SkipPendingJob ==
    /\ sched.pc = "pending"
    /\ MainFree
    /\ sched.due # <<>>
    /\ sched' = [sched EXCEPT !.due = Tail(@)]
    /\ UNCHANGED <<run_vars, norm, call, saved>>

\* the loop: run_pending has returned; time.sleep(1), and round again
Sleep ==
    /\ sched.pc = "pending"
    /\ MainFree
    /\ sched.due = <<>>
    /\ sched' = [sched EXCEPT !.pc = "wait"]
    /\ UNCHANGED <<run_vars, norm, call, saved>>

\* a run: processed_urls = load_processed_urls(processed_urls_file)
RunLoad ==
    /\ sched.pc # "crashed"
    /\ \E r \in sched.runs :
          /\ r.stage = "start"
          /\ sched' =
               IF load_outcome(sched.dedup_file).raised
               THEN [sched EXCEPT !.pc = "crashed", !.runs = @ \ {r}]
               ELSE with_run(sched, r,
                      [r EXCEPT
                         !.stage = "loop",
                         !.loaded = load_outcome(sched.dedup_file).urls,
                         !.urls = load_outcome(sched.dedup_file).urls])
    /\ UNCHANGED <<run_vars, norm, call, saved>>

\* scrape_pasture: an item passes should_scrape_url, is scraped and marked
RunMark ==
    /\ sched.pc # "crashed"
    /\ \E r \in sched.runs :
          /\ r.stage = "loop"
          /\ \E h \in Hashes \ r.urls :
                sched' = with_run(sched, r,
                            [r EXCEPT !.urls = @ \cup {h},
                                      !.marked = @ \cup {h}])
    /\ UNCHANGED <<run_vars, norm, call, saved>>

\* scrape_pasture: an exception ends the item loop of a source
RunSourceFails ==
    /\ sched.pc # "crashed"
    /\ \E r \in sched.runs :
          /\ r.stage = "loop"
          /\ ~r.failed
          /\ sched' = with_run(sched, r,
                         [r EXCEPT !.failed = TRUE,
                                   !.before = r.marked,
                                   !.urls = after_failure(r.loaded, @)])
    /\ UNCHANGED <<run_vars, norm, call, saved>>

\* fetch_posts of reddit or hackernews: requests.get without a timeout never
\* returns
RunBlocks ==
    /\ sched.pc # "crashed"
    /\ \E r \in sched.runs :
          /\ r.stage = "loop"
          /\ sched' = with_run(sched, r, [r EXCEPT !.stage = "blocked"])
    /\ UNCHANGED <<run_vars, norm, call, saved>>

\* a run: save_processed_urls(processed_urls_file, processed_urls), and the
\* run returns
RunSave ==
    /\ sched.pc # "crashed"
    /\ \E r \in sched.runs :
          /\ r.stage = "loop"
          /\ sched' = [sched EXCEPT
                         !.dedup_file = save_processed_urls(r.urls),
                         !.runs = @ \ {r},
                         !.recorded = @ \cup r.urls,
                         !.last = [kind |-> r.kind, loaded |-> r.loaded,
                                   marked |-> r.marked, urls |-> r.urls,
                                   failed |-> r.failed,
                                   before |-> r.before]]
    /\ UNCHANGED <<run_vars, norm, call, saved>>

\* do_POST /api/config: open(config_file, 'w')
PostOpen ==
    /\ sched.pc # "crashed"
    /\ sched.http = "idle"
    /\ sched.writes < MaxWrites
    /\ \E content \in ConfigPool :
          sched' = [sched EXCEPT
                      !.config_file = [complete |-> FALSE,
                                       content |-> content],
                      !.http = "writing",
                      !.writes = @ + 1]
    /\ UNCHANGED <<run_vars, norm, call, saved>>

\* do_POST: f.write(new_content) and the end of the with block
PostClose ==
    /\ sched.pc # "crashed"
    /\ sched.http = "writing"
    /\ sched' = [sched EXCEPT !.config_file.complete = TRUE,
                              !.http = "written"]
    /\ UNCHANGED <<run_vars, norm, call, saved>>

\* do_POST: trigger_config_reload()
PostTrigger ==
    /\ sched.pc # "crashed"
    /\ sched.http = "written"
    /\ sched' = [sched EXCEPT !.event = TRUE, !.triggers = @ + 1,
                              !.http = "idle"]
    /\ UNCHANGED <<run_vars, norm, call, saved>>

\* the steps of the main thread
MainThread ==
    \/ InitialRun
    \/ SetupScheduler
    \/ WaitForReload
    \/ ClearReload
    \/ ReloadConfig
    \/ ImmediateScrape
    \/ ImmediateDone
    \/ RunPendingJob
    \/ SkipPendingJob
    \/ Sleep

MainNext ==
    \/ InitialRun
    \/ SetupScheduler
    \/ WaitForReload
    \/ ClearReload
    \/ ReloadConfig
    \/ ImmediateScrape
    \/ ImmediateDone
    \/ RunPendingJob
    \/ SkipPendingJob
    \/ Sleep
    \/ RunLoad
    \/ RunMark
    \/ RunSourceFails
    \/ RunBlocks
    \/ RunSave
    \/ PostOpen
    \/ PostClose
    \/ PostTrigger

MainSpec == MainInit /\ [][MainNext]_vars

\* the main thread goes on while it can, a run that can save does, and a
\* request that has been accepted is served to its end
MainFairSpec ==
    /\ MainSpec
    /\ WF_vars(MainThread)
    /\ WF_vars(RunLoad)
    /\ WF_vars(RunSave)
    /\ WF_vars(PostClose)
    /\ WF_vars(PostTrigger)

(***************************************************************************)
(* Properties.                                                             *)
(***************************************************************************)
\* the URLs the feeds can name
UrlPool == {UrlA, UrlATracked, UrlASlash, UrlB}

\* the blacklist scrape_pasture works with for the source of that name
EffectiveBlacklist(name) ==
    get_blacklist(create_pasture(name, merge_config(name)).pasture)

\* the files of the item the loop handled last
ItemFiles(ext) ==
    {f \in files : /\ f.dir = item.source
                   /\ f.stem = hash_url(item.url)
                   /\ f.ext = ext}

C2_ArchiveNameIsDedupHash ==
    (item.result = "scraped" /\ item.pp = "converted")
    => \E f \in files : /\ f.dir = item.source
                        /\ f.ext = "md"
                        /\ f.stem = Pasture_hash_url(item.url)
                        /\ f.stem \in processed_urls

\* C3: a URL whose primary and fallback fetches all failed has no hash in
\* the Dedup Set nor in the saved file, so should_scrape_url is true for it
\* when it reappears, in this run or in a later one.
C3_FailedItemStaysUnhashed ==
    \A u \in failed_now \cup failed_earlier :
       /\ should_scrape_url(u, processed_urls)
       /\ should_scrape_url(u, load_processed_urls(processed_file))

\* C3 witness: a URL every fetch of an earlier run failed for has passed the
\* dedup gate of a later run and its fetch is under way.
C3_RetriedInLaterRun ==
    /\ pc = "scrape_url"
    /\ item.url \in failed_earlier
    /\ processed_file.exists

\* C4: while one item is processed, the fallback plain-HTTP fetch is
\* requested at most once.
C4_FallbackAtMostOnce == item.requests <= 1

\* C5: when the post-fetch blacklist check rejects the converted document,
\* the item is not reported as scraped and articles_scraped is not
\* incremented for it.
C5_RejectedIsNotSuccess ==
    item.pp = "rejected"
    => /\ item.result # "scraped"
       /\ stats.articles_scraped = item.scraped0

\* C6: when the post-fetch blacklist check rejects the converted document,
\* the run's blacklist-rejected count has increased and every matching term
\* is in blacklist_hits_by_term.
C6_RejectionIsRecorded ==
    item.pp = "rejected"
    => /\ stats.articles_rejected_blacklist > item.rejected0
       /\ \A f \in ItemFiles("html") :
             \A t \in Range(blacklist_matches(EffectiveBlacklist(item.source),
                                              f.title)) :
                stats.blacklist_hits_by_term[t] >= 1

\* C7: the output tree holds no converted document whose first line
\* contains a term of the effective blacklist of its source, whichever
\* strategy fetched it.
C7_NoBlacklistedDocument ==
    \A f \in files :
       f.ext = "md" => blacklist_matches(EffectiveBlacklist(f.dir), f.title) = <<>>

\* C8: when sanitizing the fetched page raises, the raw HTML stays on disk
\* and the item is not recorded as a successful scrape.
C8_SanitizerFailureIsFailure ==
    item.pp = "failed"
    => /\ ItemFiles("html") # {}
       /\ item.result # "scraped"
       /\ stats.articles_scraped = item.scraped0
       /\ should_scrape_url(item.url, processed_urls)

\* C9: once the loop over the filtered list of a source has started, a
\* failing item never raises out of the loop (the source does not end in
\* the except block) and the source ends with every item of the list
\* handled.
C9_ItemFailureIsLocal ==
    \A i \in 1..Len(section_log) :
       section_log[i].total >= 0
       => /\ section_log[i].result \in {"running", "ok"}
          /\ section_log[i].handled <= section_log[i].total
          /\ section_log[i].result = "ok"
             => section_log[i].handled = section_log[i].total

\* C9 witness: the first source of a run has ended normally with two items
\* handled, the first of which failed in every strategy and the second of
\* which was scraped.
C9_LaterItemProcessed ==
    /\ Len(section_log) = 1
    /\ section_log[1].result = "ok"
    /\ section_log[1].total = 2
    /\ section_log[1].handled = 2
    /\ failed_now # {}
    /\ item.result = "scraped"
    /\ item.url \notin failed_now

\* C10: a source whose fetch_posts or filter_posts failed ends in the except
\* block with the error counter of the run one higher, and at the end of
\* the loop over the sections every configured source has been processed,
\* in the order of the configuration.
C10_SourceFailureIsLocal ==
    /\ \A i \in 1..Len(section_log) :
          section_log[i].result = "error"
          => section_log[i].errors1 = section_log[i].errors0 + 1
    /\ stats.errors =
          Cardinality({i \in 1..Len(section_log) : section_log[i].result = "error"})
    /\ (pc = "sections" /\ sections = <<>>)
       => /\ Len(section_log) = Cardinality(SourceNames)
          /\ \A i \in 1..Len(section_log) :
                /\ section_log[i].name = ConfigSections[i + 1]
                /\ section_log[i].result \in {"ok", "error", "setup_error"}

\* C10 witness: the first source failed before its loop, the error was
\* counted, and the last source went on to scrape an item and ended
\* normally.
C10_NextSourceStillProcessed ==
    /\ pc = "sections"
    /\ sections = <<>>
    /\ Len(section_log) = 3
    /\ section_log[1].result = "error"
    /\ section_log[1].total = -1
    /\ section_log[3].result = "ok"
    /\ section_log[3].handled >= 1
    /\ stats.errors = 1
    /\ stats.articles_scraped >= 1

\* C11: an item whose fetch failed under the primary and the fallback
\* strategy has raised the error counter of the run.
C11_FailedItemCountsError ==
    item.result = "failed" => stats.errors > item.errors0

\* URLs the media rule covers: a listed file extension, a media-hosting domain
MediaUrls == {UrlMedia, UrlMediaDomain}

\* C12: a media URL is never fetched: no file is named by its hash, its hash
\* is in no Dedup Set, it is never a failed fetch; the item is skipped with no
\* browser, no HTTP request and no change of the error and scraped counters.
C12_MediaNeverFetched ==
    /\ \A u \in MediaUrls :
          /\ \A f \in files : f.stem \notin {hash_url(u), Pasture_hash_url(u)}
          /\ Pasture_hash_url(u) \notin processed_urls \cup processed_file.content
          /\ u \notin failed_now \cup failed_earlier
    /\ item.url \in MediaUrls
       => /\ item.result = "media"
          /\ item.primary = "none"
          /\ item.requests = 0
          /\ driver = NoDriver
          /\ pc = "loop" => /\ stats.errors = item.errors0
                            /\ stats.articles_scraped = item.scraped0

\* C12 witness: the loop has skipped an item that is media by its domain.
C12_MediaDomainSkipped ==
    /\ pc = "loop"
    /\ item.url = UrlMediaDomain
    /\ item.result = "media"
    /\ Cur.handled >= 1

FailedAttempts ==
    IF driver.open THEN driver.attempts - 1 ELSE driver.attempts

\* C14 as stated: at most 3 attempts, and the waits after the successive
\* failed attempts are 1s, 2s and 4s, the last one before giving up.
C14_WaitsOneTwoFour ==
    /\ driver.attempts <= 3
    /\ driver.sleeps = [k \in 1..FailedAttempts |-> 2 ^ (k - 1)]

\* C14 amended: at most 3 attempts; the waits are 1s after the first failed
\* attempt and 2s after the second; the third failure gives up at once.
C14_WaitsOneTwo ==
    /\ driver.attempts <= 3
    /\ driver.sleeps = [k \in 1..Min(FailedAttempts, 2) |-> 2 ^ (k - 1)]
    /\ (item.primary = "err_driver" /\ pc = "inner_fallback")
       => driver.attempts = 3

\* C14 witness: create_driver_with_retry gave up after three failed attempts.
C14_GaveUpAfterThree ==
    /\ pc = "inner_fallback"
    /\ item.primary = "err_driver"
    /\ ~driver.open
    /\ driver.attempts = 3
    /\ driver.sleeps = <<1, 2>>

\* C15: every network call of a run has a timeout, so no call waits for ever
\* for a server that never responds.
C15_NoCallBlocksForever == pc # "blocked"

\* the blacklist terms the configuration gives a source
ConfiguredTerms(name) ==
    Range(SplitComma(Config.global.blacklist))
    \cup Range(SplitComma(Config[name].blacklist))

\* the title of the post contains a configured term, whatever the case
TitleHasTerm(post, name) ==
    \E t \in ConfiguredTerms(name) :
       \E i \in 1..Len(post.title) : Lower(post.title[i]) = Lower(t)

QueryOf(url) == QueryPairs(urlparse(url).query)

\* C16: normalize_url is idempotent: applied to its own result it returns
\* that result.
C16_NormalizeIdempotent ==
    Len(norm.out) = 2 => norm.out[2] = norm.out[1]

\* C17: a URL with one more parameter whose name is in the tracking denylist
\* (in any case) has the hash of the URL without it.
C17_TrackingParamInvariant ==
    norm.kind = "tracked" => hash_url(norm.url) = norm.base

\* C17 witness: an upper-case tracking parameter was added to a URL that has
\* another parameter, and the URL as given is not its own normal form.
C17_UpperCaseTrackingAdded ==
    /\ norm.kind = "tracked"
    /\ \E i \in 1..Len(norm.url) : norm.url[i] = "UTM_SOURCE"
    /\ \E i \in 1..Len(norm.url) : norm.url[i] = "b"
    /\ normalize_url(norm.url) # norm.url
    /\ norm.base = hash_url(norm.url)

\* C18: a URL with one more "/" at the end of its path has the hash of the
\* URL without it.
C18_TrailingSlashInvariant ==
    norm.kind = "slashed" => hash_url(norm.url) = norm.base

\* C19: the query of the normalized URL lists every non-tracking parameter
\* of the URL, repeated names included, in their original relative order.
C19_QueryOrderKept ==
    norm.out # <<>>
    => QueryOf(norm.out[1])
       = SelectSeq(QueryOf(norm.url), LAMBDA p : ~IsTrackingKey(p[1]))

\* the texts an adapter matches the blacklist on
PostMatches(type, term, post) ==
    IF type = "hackernews"
    THEN Matches(term, post.title) \/ Matches(term, post.url)
    ELSE IF type = "rss"
    THEN Matches(term, post.title)
         \/ ("description" \in DOMAIN post /\ Matches(term, post.description))
    ELSE Matches(term, post.title)

\* the terms of the blacklist the adapter of the call is configured with
CallTerms == Range(SplitComma(call.pasture.config.blacklist))

\* C21: after filter_posts of any adapter variant, the blacklist counter of
\* every configured term is at least the number of items of the list that
\* match the term (each of them is excluded).
C21_ExclusionsAreRecorded ==
    (call.fn = "filter_posts" /\ call.done /\ ~call.ret.raised)
    => \A term \in CallTerms :
          call.ret.stats.blacklist_hits_by_term[term]
          >= Cardinality({i \in 1..Len(call.posts) :
                             PostMatches(call.pasture.type, term, call.posts[i])})

\* the documents of a source in an output tree
MdFiles(fs, dir) == {f \in fs : f.dir = dir /\ f.ext = "md"}

\* the loop of a Reddit source is over; its items were link posts with
\* pairwise distinct URLs, none of them media, none in the Dedup Set when
\* the loop began, and every one was fetched and converted
AllNewAndConverted ==
    /\ pc = "loop"
    /\ todo = <<>>
    /\ pasture.type = "reddit"
    /\ Cur.total >= 1
    /\ Cur.handled = Cur.total
    /\ Cur.converted = Cur.total
    /\ \A i \in 1..Len(Cur.urls) :
          /\ ~is_media_url(Cur.urls[i])
          /\ should_scrape_url(Cur.urls[i], Cur.dedup0)
          /\ \A j \in 1..Len(Cur.urls) : Cur.urls[i] = Cur.urls[j] => i = j

\* C22: when the k eligible items of a Reddit source (not stickied, no
\* self-posts, no blacklisted title, distinct new URLs) have all been
\* fetched and converted, the source's directory has k more .md files, the
\* Dedup Set k more hashes, and articles_scraped of the source is k.
C22_OneDocumentPerEligibleItem ==
    AllNewAndConverted
    => /\ Cardinality(MdFiles(files, get_output_directory(pasture)))
          = Cardinality(MdFiles(Cur.files0, get_output_directory(pasture)))
            + Cur.total
       /\ Cardinality(processed_urls \ Cur.dedup0) = Cur.total
       /\ stats.articles_by_source[pasture.name] = Cur.total

\* the terms of the blacklist value of a section of config.ini
SectionTerms(section) ==
    IF "blacklist" \in DOMAIN Config[section]
    THEN Range(SplitComma(Config[section].blacklist))
    ELSE {}

TagEntries(section) ==
    IF "remove_tags" \in DOMAIN section
    THEN Range(SplitComma(section.remove_tags))
    ELSE {}

\* C24: for a source run through the configuration merge, the tags
\* get_tags_to_remove returns are the global tags without those the source
\* marks with "-", together with the source's own tags.
C24_EffectiveTagsToRemove ==
    (call.fn = "get_tags_to_remove" /\ call.done)
    => call.ret
       = ((TagEntries(call.global)
           \ {keep_tag_name(t) : t \in {e \in TagEntries(call.section) : is_keep_tag(e)}})
          \cup {t \in TagEntries(call.section) : ~is_keep_tag(t)})

\* C25: create_pasture takes an explicit type as it is, whatever the URL,
\* and raises when that type is not registered; without a type a reddit.com
\* URL gives Reddit, a HackerNews domain, API host or name gives HackerNews,
\* and any other URL, or none, gives Reddit, never with an error.
C25_AdapterSelection ==
    (call.fn = "create_pasture" /\ call.done)
    => IF call.type # "none"
       THEN /\ call.ret.pasture.type = call.type
            /\ call.ret.raised <=> call.type \notin pasture_types
       ELSE /\ ~call.ret.raised
            /\ call.url_kind = "reddit" => call.ret.pasture.type = "reddit"
            /\ call.url_kind \in {"hn_domain", "hn_api", "hn_word"}
               => call.ret.pasture.type = "hackernews"
            /\ call.url_kind \in {"other", "none"}
               => call.ret.pasture.type = "reddit"

\* C25 witness: a section with type hackernews and a reddit.com URL was
\* created as a HackerNews adapter.
C25_TypeBeatsUrl ==
    /\ call.fn = "create_pasture"
    /\ call.done
    /\ call.type = "hackernews"
    /\ call.url_kind = "reddit"
    /\ UrlHas(call.config.url, "reddit.com")
    /\ ~call.ret.raised
    /\ call.ret.pasture.type = "hackernews"

\* the adapter variants the system names
AdapterVariants == {"reddit", "hackernews", "rss"}

\* the explicit type of a section of config.ini, "none" without one
ExplicitType(section) ==
    IF "type" \in DOMAIN Config[section] THEN Config[section].type[1]
    ELSE "none"

\* C26: a source whose explicit type names one of the three adapter
\* variants is created as that adapter and run: its setup does not fail.
C26_NamedVariantsAreRun ==
    \A i \in 1..Len(section_log) :
       ExplicitType(section_log[i].name) \in AdapterVariants
       => section_log[i].result # "setup_error"

\* C27: a source fails its setup only when its explicit type is not
\* registered; the failure changes no counter, and at the end of the loop
\* over the sections every configured source has its entry, in the order of
\* the configuration, every other source having been created and processed.
C27_SetupFailureIsLocal ==
    /\ \A i \in 1..Len(section_log) :
          section_log[i].result = "setup_error"
          => /\ ExplicitType(section_log[i].name) \notin pasture_types \cup {"none"}
             /\ section_log[i].errors1 = section_log[i].errors0
             /\ section_log[i].total = -1
    /\ (pc = "sections" /\ sections = <<>>)
       => /\ Len(section_log) = Cardinality(SourceNames)
          /\ \A i \in 1..Len(section_log) :
                /\ section_log[i].name = ConfigSections[i + 1]
                /\ ExplicitType(section_log[i].name) \in pasture_types \cup {"none"}
                   => section_log[i].result \in {"ok", "error"}

\* C27 witness: the second source failed its setup, and the source after it
\* was created, scraped an item and ended normally.
C27_SourceAfterFailureProcessed ==
    /\ pc = "sections"
    /\ sections = <<>>
    /\ Len(section_log) = 3
    /\ section_log[2].name = "feed"
    /\ section_log[2].result = "setup_error"
    /\ section_log[3].name = "hn"
    /\ section_log[3].result = "ok"
    /\ section_log[3].handled >= 1
    /\ stats.articles_by_source["hn"] >= 1
    /\ stats.errors = 0

\* C28: with max_age_days = N configured, the RSS filter returns no item
\* whose publish date is written in one of the supported formats, with or
\* without a time zone, and lies more than N whole days back, and it keeps
\* every item without a date or with an unparseable one (unless the
\* blacklist excludes it).
C28_MaxAgeFilter ==
    (/\ call.fn = "filter_posts"
     /\ call.done
     /\ call.pasture.type = "rss"
     /\ "max_age_days" \in DOMAIN call.pasture.config)
    => LET N == int_of(call.pasture.config.max_age_days).n
           blacklist == SplitComma(call.pasture.config.blacklist)
       IN  \A i \in 1..Len(call.posts) :
              LET post == call.posts[i]
              IN  /\ (/\ "pub_date" \in DOMAIN post
                      /\ post.pub_date.fmt \in date_formats
                      /\ post.pub_date.age_hours \div 24 > N)
                     => post \notin Range(call.ret.posts)
                  /\ (/\ \/ "pub_date" \notin DOMAIN post
                         \/ post.pub_date.fmt \notin date_formats
                      /\ ~rss_blacklisted(post, blacklist))
                     => post \in Range(call.ret.posts)

\* the entry in the file of the day of the last save
Today == saved.all_stats.daily[saved.date]

\* a counter of the day's entry, 0 when the entry has no such counter
Counter(day, key) == IF key \in DOMAIN day THEN day[key] ELSE 0

\* C29: after a save, every counter of the day's entry (scraped, duplicate,
\* blacklist-rejected, error) and every entry of the two breakdowns is the
\* value the file had before plus the value of the run.
C29_DailyCountersAreSums ==
    saved.run >= 1
    => /\ \A key \in {"articles_scraped", "articles_skipped_duplicate",
                      "articles_rejected_blacklist", "errors"} :
             /\ key \in DOMAIN Today
             /\ Today[key] = Counter(saved.prev_day, key) + saved.session[key]
       /\ \A key \in {"blacklist_hits_by_term", "articles_by_source"} :
             \A k \in DOMAIN saved.session[key] \cup DOMAIN saved.prev_day[key] :
                /\ k \in DOMAIN Today[key]
                /\ Today[key][k]
                   = Counter(saved.prev_day[key], k) + Counter(saved.session[key], k)

\* C30: the sessions of the file are at most 100 and are the last runs
\* saved, in order; the days of the file are at most 90 and are the last
\* days a save was made on.
C30_RetentionIsBounded ==
    LET sessions == saved.all_stats.sessions
        days == DOMAIN saved.all_stats.daily
    IN  /\ Len(sessions) <= max_sessions
        /\ Len(sessions) = Min(saved.run, max_sessions)
        /\ \A i \in 1..Len(sessions) :
              sessions[i].run = saved.run - Len(sessions) + i
        /\ Cardinality(days) <= max_days
        /\ Cardinality(days) = Min(Cardinality(saved.dates), max_days)
        /\ days \subseteq saved.dates
        /\ \A d \in days : \A e \in saved.dates \ days : e < d

\* C30 witness: a save on a new day into a file with 100 sessions and 90
\* days dropped the oldest session and the oldest day.
C30_OldestDropped ==
    /\ saved.saves >= 1
    /\ saved.session.errors = 1
    /\ saved.run > max_sessions
    /\ Len(saved.all_stats.sessions) = max_sessions
    /\ saved.all_stats.sessions[1].run = saved.run - max_sessions + 1
    /\ saved.all_stats.sessions[max_sessions].run = saved.run
    /\ Cardinality(saved.dates) > max_days
    /\ Cardinality(DOMAIN saved.all_stats.daily) = max_days
    /\ saved.date = saved.today
    /\ saved.date \in DOMAIN saved.all_stats.daily
    /\ Today.sessions_count = 1
    /\ saved.date - max_days \in saved.dates
    /\ saved.date - max_days \notin DOMAIN saved.all_stats.daily

\* the anchor of the example: href="https://site.com/a/b/c"
ExampleHref ==
    <<"https:", "/", "/", "site.com", "/", "a", "/", "b", "/", "c">>

\* scheme://host/... : a scheme, two slashes, a host and a third slash
IsAbsolute(href) ==
    /\ Len(href) >= 5
    /\ href[1] \in {"http:", "https:"}
    /\ href[2] = "/" /\ href[3] = "/" /\ href[4] # "/" /\ href[5] = "/"

LoadedAtStart == load_processed_urls(processed_file)

\* C35: during a run and at its end, the hashes the Dedup Set has gained
\* since it was loaded are as many as articles_scraped: every counted scrape
\* added one hash that was not in the set, and nothing else added a hash.
C35_GainEqualsScraped ==
    pc # "idle"
    => /\ LoadedAtStart \subseteq processed_urls
       /\ Cardinality(processed_urls \ LoadedAtStart) = stats.articles_scraped

\* C35 witness: a run has scraped a new item, skipped a duplicate of it and
\* is about to save
C35_RunWithScrapeAndDuplicate ==
    /\ pc = "sections"
    /\ sections = <<>>
    /\ stats.articles_scraped = 1
    /\ stats.articles_skipped_duplicate = 1
    /\ Cardinality(processed_urls) = Cardinality(LoadedAtStart) + 1

Unreadable(file) == ~file.exists \/ ~file.valid

\* C32: load_processed_urls never ends the process; a run that found the
\* file missing or corrupt has loaded the empty set and goes on.
C32_LoadIsNeverFatal ==
    /\ sched.pc # "crashed"
    /\ \A r \in sched.runs :
          (r.stage # "start" /\ Unreadable(sched.dedup_file))
          => r.loaded = {}

\* C32 witness: a run that found a corrupt file has marked an item
C32_RunGoesOnAfterCorruptFile ==
    \E r \in sched.runs :
       /\ sched.dedup_file.exists
       /\ ~sched.dedup_file.valid
       /\ r.stage = "loop"
       /\ r.loaded = {}
       /\ r.marked # {}

\* C33: at most one run is in progress at any time, whatever started it,
\* and every hash a run has saved is still in the file.
C33_RunsNeverOverlap ==
    /\ Cardinality(sched.runs) <= 1
    /\ sched.recorded \subseteq load_processed_urls(sched.dedup_file)

\* C33 witness: the initial run, a run made by a reload and a scheduled run
\* have all saved, and the file holds every hash
C33_ThreeKindsOfRunSaved ==
    /\ sched.runs = {}
    /\ sched.pc = "pending"
    /\ sched.due = <<>>
    /\ sched.reload.scraped # <<>>
    /\ sched.last.kind = "scheduled"
    /\ sched.last.marked # {}
    /\ sched.dedup_file.content = Hashes

\* C36: every trigger is followed by a reload that reads config.ini after
\* the trigger was issued.
C36_NoTriggerIsLost ==
    \A k \in 1..MaxWrites : (sched.triggers >= k) ~> (sched.seen >= k)

\* C37: the configuration a reload has read is a file that was written to
\* its end.
C37_ReloadReadsCompleteFile == sched.reload.complete

\* the sources of the new configuration that are new, or have a key other
\* than interval added, changed or removed
ChangedSources(old, new) ==
    {section \in DOMAIN new \ {"global"} :
        \/ section \notin DOMAIN old
        \/ \E key \in (DOMAIN new[section] \cup DOMAIN old[section])
                      \ {"interval"} :
              \/ key \notin DOMAIN old[section]
              \/ key \notin DOMAIN new[section]
              \/ old[section][key] # new[section][key]}

\* C38: a reload scrapes at once the sources that are new or differ from
\* the previous configuration in a key other than interval, and no others.
C38_ImmediateScrapeIffChanged ==
    sched.reload.count >= 1
    => Range(sched.reload.scraped)
       = ChangedSources(sched.reload.old, sched.reload.new)

\* the jobs of the scheduler for that source
JobsOf(section) == {i \in 1..Len(sched.jobs) : sched.jobs[i] = section}

\* C39: once the scheduler is set up, and after every reload, it holds one
\* job for each section of the configuration other than "global" and none
\* for any other name.
C39_OneJobPerSource ==
    sched.pc \notin {"off", "initial", "setup"}
    => \A section \in Range(SectionOrder) \cup Range(sched.jobs) :
          Cardinality(JobsOf(section))
          = IF section \in DOMAIN sched.config \ {"global"} THEN 1 ELSE 0

\* C39 witness: a reload has added a source and the next has removed it
C39_SourceAddedAndRemoved ==
    /\ sched.reload.count = 2
    /\ "hn" \in DOMAIN sched.reload.old
    /\ "hn" \notin DOMAIN sched.config
    /\ sched.jobs = <<"news">>

====
